---- MODULE Spec2Model ----
(***************************************************************************)
(* Transcript-Memory-Engine: the retrieval-and-context-assembly engine.    *)
(*                                                                         *)
(* RAGService.answer_question (query/rag_service.py) with the calls it     *)
(* makes: SimilarityRetriever.retrieve (query/retriever.py), the crud      *)
(* lookups of database/crud.py, the vector store and the generation        *)
(* interface.  Time is a small integer scale, a token count is an integer, *)
(* an excerpt's content is represented by its token count.                 *)
(***************************************************************************)
EXTENDS Integers, Sequences, FiniteSets, TLC

(***************************************************************************)
(* Bounds of the model.                                                    *)
(***************************************************************************)
\* largest k a caller passes, hence the longest list a vector search returns
MaxK == 2
\* most rows of the chunks table owned by one transcript
MaxChunks == 2
\* longest chat history handed to the budget planner
MaxHistory == 3
\* most transcripts one fetch from the Limitless API yields
MaxFetched == 2
\* longest text handed to chunk_text, in characters
MaxText == 4
\* largest small chunk_size handed to chunk_text
MaxChunkSize == 3

\* the transcripts table holds these primary keys
TranscriptIds == {1, 2}

(***************************************************************************)
(* Time.  start_time is stored as ISO text and compared as text by SQLite; *)
(* for UTC timestamps of one format that order is the order of the         *)
(* instants, which is what the integers below stand for.                   *)
(*   0            yesterday                                                *)
(*   1, 2         today, before now                                        *)
(*   3            today, not before now                                    *)
(***************************************************************************)
\* a NULL start_time column / a missing metadata key
NoTime == -1
\* datetime(now.year, now.month, now.day, tzinfo=utc)
StartOfDay == 1
\* datetime.now(timezone.utc)
Now == 3
\* start_of_day + timedelta(days=1)
EndOfDay == 4
StartTimes == {NoTime} \cup (0 .. (EndOfDay - 1))

\* datetime.min.replace(tzinfo=timezone.utc): before every start time
DatetimeMin == -2

\* the value of latest_transcript_id when there is none (Python None)
NoId == 0

(***************************************************************************)
(* Sequence helpers.                                                       *)
(***************************************************************************)
Prefix(s, n) == SubSeq(s, 1, n)

\* the last n elements of s
Suffix(s, n) == SubSeq(s, Len(s) - n + 1, Len(s))

\* every duplicate-free sequence over S of length at most n
SeqsNoDup(S, n) ==
    {s \in UNION {[1 .. m -> S] : m \in 0 .. n} :
        \A i, j \in DOMAIN s : i # j => s[i] # s[j]}

(***************************************************************************)
(* Query texts.  A text is an atom; what the code computes from it         *)
(* (normalisation, the regex search, the token count) is tabulated for     *)
(* the texts below.                                                        *)
(***************************************************************************)
Queries ==
    {"", "Available Dates?", "who spoke at todays standup", "What was said TODAY?"}

\* query_text.lower().strip().replace("?", "")
NormalizedQuery(q) ==
    CASE q = "Available Dates?" -> "available dates"
      [] q = "What was said TODAY?" -> "what was said today"
      [] OTHER -> q

date_list_phrases ==
    {"what days do you have transcript data for",
     "what days do you have data for",
     "which days do you have data for",
     "what dates do you have data for",
     "which dates do you have data for",
     "list available dates",
     "list transcript dates",
     "show transcript dates",
     "available dates",
     "available days"}

\* variant: the raw text is compared with the phrases
is_direct_date_list_query_raw(q) == q \in date_list_phrases

is_direct_date_list_query(q) == NormalizedQuery(q) \in date_list_phrases

\* variant: 'today' is searched as a substring, not as a whole word
is_today_query_substring(q) ==
    q \in {"What was said TODAY?", "who spoke at todays standup"}

\* bool(TODAY_REGEX.search(query_text)): \btoday\b, case-insensitive
is_today_query(q) == q \in {"What was said TODAY?"}

(***************************************************************************)
(* The stores: the transcripts table (start_time per id), the chunks table *)
(* (each transcript owns nchunks rows, ordered by id) and, for the vector  *)
(* store, whether the metadata its entries were added with holds the       *)
(* owning transcript's start time (ChromaStore.add keeps whatever metadata *)
(* it is given; run_ingestion_pipeline gives it the transcript id only).   *)
(***************************************************************************)
Stores ==
    [start : [TranscriptIds -> StartTimes], nchunks : 0 .. MaxChunks,
     start_in_metadata : BOOLEAN]

\* token count of the content of the excerpt stored under (transcript, index)
ContentTokens(id) == 1 + ((id[1] + 2 * id[2]) % 3)

\* the end_time column of a transcript: a recording lasts one unit of the
\* time scale, so one that started yesterday (0) ended today (StartOfDay)
end_time_of(d, t) == IF d.start[t] = NoTime THEN NoTime ELSE d.start[t] + 1

\* WHERE start_time >= ? AND start_time < ?  (a NULL start_time matches nothing)
get_transcript_ids_by_date_range(d, start_dt, end_dt) ==
    {t \in TranscriptIds :
        d.start[t] # NoTime /\ d.start[t] >= start_dt /\ d.start[t] < end_dt}

\* variant: ORDER BY start_time DESC, id ASC
get_latest_transcript_id_for_today_lowest_id(d) ==
    LET rows == get_transcript_ids_by_date_range(d, StartOfDay, Now)
    IN  IF rows = {} THEN NoId
        ELSE CHOOSE t \in rows :
                \A u \in rows :
                    \/ d.start[u] < d.start[t]
                    \/ d.start[u] = d.start[t] /\ u >= t

\* ... ORDER BY start_time DESC, id DESC LIMIT 1, with now as the upper end
get_latest_transcript_id_for_today(d) ==
    LET rows == get_transcript_ids_by_date_range(d, StartOfDay, Now)
    IN  IF rows = {} THEN NoId
        ELSE CHOOSE t \in rows :
                \A u \in rows :
                    \/ d.start[u] < d.start[t]
                    \/ d.start[u] = d.start[t] /\ u <= t

\* SELECT * FROM chunks WHERE transcript_id = ? ORDER BY id ASC
get_chunks_by_transcript_id(d, t) ==
    [i \in 1 .. d.nchunks |->
        [transcript_id |-> t, content |-> ContentTokens(<<t, i - 1>>)]]

\* the start_time of the row with this id, parsed back to a datetime
get_transcript_by_id(d, t) == d.start[t]

(***************************************************************************)
(* The vector store: one entry per excerpt, id "{transcript_id}_{index}",   *)
(* metadata {transcript_id} as run_ingestion_pipeline adds it, or with the *)
(* owning transcript's start time besides (db.start_in_metadata).          *)
(***************************************************************************)
\* the entries it holds: two excerpts of each transcript, whatever the number
\* of rows of the chunks table (the two are filled independently)
VectorIds == TranscriptIds \X {0, 1}

\* one entry of the list ChromaStore.query returns
RetrievedDoc(d, id) ==
    [id |-> id, content |-> ContentTokens(id), transcript_id |-> id[1],
     transcript_start_time_iso |->
         IF d.start_in_metadata THEN d.start[id[1]] ELSE NoTime]

\* the filter value of an unfiltered search (Python None)
NoFilter == {}

\* every list a search for k neighbours under the filter can return
VectorQuery(d, kk, filter) ==
    LET allowed == IF filter = NoFilter THEN VectorIds
                   ELSE {id \in VectorIds : id[1] \in filter}
    IN  {[i \in DOMAIN s |-> RetrievedDoc(d, s[i])] : s \in SeqsNoDup(allowed, kk)}

(***************************************************************************)
(* SimilarityRetriever                                                     *)
(***************************************************************************)
\* variant: the exception of the store lookup leaves _get_today_filter
TodayFilterOutcomes_reraises(d, conn) ==
    LET transcript_ids == get_transcript_ids_by_date_range(d, StartOfDay, EndOfDay)
    IN  IF ~conn THEN {[filter |-> NoFilter, how |-> "no_conn", raised |-> FALSE]}
        ELSE {[filter |-> transcript_ids,
               how |-> IF transcript_ids = {} THEN "empty" ELSE "ids",
               raised |-> FALSE],
              [filter |-> NoFilter, how |-> "error", raised |-> TRUE]}

\* every way _get_today_filter can end: the filter returned and how it came
\* about: no connection (46-48), the ids of the day (68-74), no transcript
\* of the day (63-65), the store lookup raised (75-77)
TodayFilterOutcomes(d, conn) ==
    LET transcript_ids == get_transcript_ids_by_date_range(d, StartOfDay, EndOfDay)
    IN  IF ~conn THEN {[filter |-> NoFilter, how |-> "no_conn", raised |-> FALSE]}
        ELSE {[filter |-> transcript_ids,
               how |-> IF transcript_ids = {} THEN "empty" ELSE "ids",
               raised |-> FALSE],
              [filter |-> NoFilter, how |-> "error", raised |-> FALSE]}

\* variant: the handler logs and re-raises
RetrieveOnError_reraises(q, done, what) ==
    [chunks |-> <<>>, filter_calls |-> done.filter_calls,
     filter_how |-> done.filter_how,
     embed_calls |-> done.embed_calls, search_calls |-> done.search_calls,
     search_filter |-> done.search_filter, error |-> what, raised |-> TRUE]

\* except Exception (retriever.py 156-162): log, return the empty list
RetrieveOnError(q, done, what) ==
    [chunks |-> <<>>, filter_calls |-> done.filter_calls,
     filter_how |-> done.filter_how,
     embed_calls |-> done.embed_calls, search_calls |-> done.search_calls,
     search_filter |-> done.search_filter, error |-> what, raised |-> FALSE]

\* every way one call of retrieve can end: the list returned, the calls made,
\* which call raised ("none", "embed", "search") and whether retrieve raised
RetrieveOutcomes(q, kk, d, conn) ==
    IF q = ""
    THEN {[chunks |-> <<>>, filter_calls |-> 0, filter_how |-> "none",
           embed_calls |-> 0, search_calls |-> 0, search_filter |-> NoFilter,
           error |-> "none", raised |-> FALSE]}
    ELSE LET \* the call of line 114, whose result line 135 supersedes
             first == IF is_today_query(q) /\ conn THEN 1 ELSE 0
             calls(f, how, e, s, used) ==
                 [filter_calls |-> f, filter_how |-> how, embed_calls |-> e,
                  search_calls |-> s, search_filter |-> used]
         IN  \* embed_query raises
             {RetrieveOnError(q, calls(first, "none", 1, 0, NoFilter), "embed")}
             \cup
             UNION {
                 IF f.raised
                 THEN \* an exception of line 135 is caught at line 156
                      {RetrieveOnError(q, calls(first + 1, f.how, 1, 0, NoFilter),
                                       "filter")}
                 ELSE \* vector_store.query raises
                      {RetrieveOnError(q, calls(first + 1, f.how, 1, 1, f.filter),
                                       "search")}
                      \cup
                      \* vector_store.query returns a list
                      {[chunks |-> r, filter_calls |-> first + 1,
                        filter_how |-> f.how, embed_calls |-> 1,
                        search_calls |-> 1, search_filter |-> f.filter,
                        error |-> "none", raised |-> FALSE] :
                          r \in VectorQuery(d, kk, f.filter)}
                 : f \in TodayFilterOutcomes(d, conn)}

(***************************************************************************)
(* Recency injection, re-sort and start-time metadata                      *)
(* (rag_service.py 118-219)                                                *)
(***************************************************************************)
\* the dictionary built for one row of the latest transcript (151-165)
InjectedDoc(latest, index, chunk_obj, parent_start) ==
    [id |-> <<latest, index>>, content |-> chunk_obj.content,
     transcript_id |-> chunk_obj.transcript_id,
     transcript_start_time_iso |-> parent_start]

\* variant: every row is added, retrieved or not
ExplicitlyFetched_without_dedupe(latest, rows, parent_start, retrieved_ids) ==
    [i \in DOMAIN rows |-> InjectedDoc(latest, i - 1, rows[i], parent_start)]

\* variant: a row is skipped when any excerpt of its transcript was retrieved
ExplicitlyFetched_by_transcript(latest, rows, parent_start, retrieved_ids) ==
    IF latest \in {id[1] : id \in retrieved_ids} THEN <<>>
    ELSE [i \in DOMAIN rows |-> InjectedDoc(latest, i - 1, rows[i], parent_start)]

\* explicitly_fetched_chunk_data: the rows whose generated id is not among
\* the retrieved ids, in row order (138-167)
ExplicitlyFetched(latest, rows, parent_start, retrieved_ids) ==
    LET keep == {i \in DOMAIN rows : <<latest, i - 1>> \notin retrieved_ids}
        RECURSIVE build(_)
        build(n) ==
            IF n = 0 THEN <<>>
            ELSE IF n \in keep
                 THEN Append(build(n - 1),
                             InjectedDoc(latest, n - 1, rows[n], parent_start))
                 ELSE build(n - 1)
    IN  build(Len(rows))

\* get_transcript_by_id raised at line 135: nothing catches it there
InjectOnParentError(data, latest) ==
    [data |-> data, latest |-> latest, db_error |-> "parent", raised |-> TRUE]

\* every way lines 122-173 can end for a 'today' query: the combined list,
\* the transcript chosen, the lookup that failed and whether the call raised
InjectOutcomes(d, data) ==
    LET retrieved_ids == {data[i].id : i \in DOMAIN data}
        found == get_latest_transcript_id_for_today(d)
        none(err) == [data |-> data, latest |-> NoId, db_error |-> err,
                      raised |-> FALSE]
        with(latest, rows, err) ==
            [data |-> data \o ExplicitlyFetched(latest, rows,
                                  get_transcript_by_id(d, latest), retrieved_ids),
             latest |-> latest, db_error |-> err, raised |-> FALSE]
    IN  \* the lookup of the latest id fails inside crud (664-666): None
        {none("latest")}
        \cup
        (IF found = NoId THEN {none("none")}
         ELSE {with(found, get_chunks_by_transcript_id(d, found), "none"),
               \* the chunk query fails inside crud (688-691): no rows
               with(found, <<>>, "chunks"),
               InjectOnParentError(data, found)})

\* the sort key of lines 182-184: the parsed start time, or datetime.min
RecencyKey(c) ==
    IF c.transcript_start_time_iso # NoTime THEN c.transcript_start_time_iso
    ELSE DatetimeMin

\* list.sort(key=..., reverse=True): descending and stable
RECURSIVE SortByRecency(_)
SortByRecency(data) ==
    IF data = <<>> THEN <<>>
    ELSE LET n == Len(data)
             x == data[n]
             done == SortByRecency(Prefix(data, n - 1))
             \* x goes behind every element whose key is not smaller
             ahead == Cardinality({i \in DOMAIN done : RecencyKey(done[i]) >= RecencyKey(x)})
         IN  Prefix(done, ahead) \o <<x>> \o SubSeq(done, ahead + 1, Len(done))

\* lines 205-213 for one dictionary: set the key when the transcript has a start
WithStartTime(d, c) ==
    IF get_transcript_by_id(d, c.transcript_id) # NoTime
    THEN [c EXCEPT !.transcript_start_time_iso = get_transcript_by_id(d, c.transcript_id)]
    ELSE c

\* lines 201-218 when the lookup succeeds for the first n dictionaries and
\* raises (caught at 216) at the next one, if there is one
AddStartTimeUpTo(d, data, n) ==
    [i \in DOMAIN data |-> IF i <= n THEN WithStartTime(d, data[i]) ELSE data[i]]

\* variant: the store hands out the dictionaries it keeps, so the start times
\* the call wrote into them stay
StoreAfterCall_shared_records(d, data) ==
    IF \E i \in DOMAIN data : data[i].transcript_start_time_iso # NoTime
    THEN [d EXCEPT !.start_in_metadata = TRUE]
    ELSE d

\* the records of the vector store once a call has changed the dictionaries
\* it got from it: ChromaStore.query builds new dictionaries for every query
\* (chroma_store.py 170-181), so the store keeps what it had
StoreAfterCall(d, data) == d

(***************************************************************************)
(* Settings and token counts                                               *)
(***************************************************************************)
\* context_target_tokens when it is not set (None)
NoTarget == 0

\* the budgets a call can find in get_settings()
SettingsSet ==
    {[model_context_window |-> w, answer_buffer_tokens |-> 1000,
      context_target_tokens |-> t] :
        <<w, t>> \in {<<900, NoTarget>>, <<1161, NoTarget>>, <<1167, 5000>>,
                      <<1175, 172>>}}

\* len(tokenizer.encode(SYSTEM_PROMPT_TEMPLATE))
system_prompt_tokens == 4

\* len(tokenizer.encode("**Current Question:**\n" + query_text))
query_tokens(q) ==
    CASE q = "" -> 2
      [] q = "who spoke at todays standup" -> 4
      [] OTHER -> 6

formatting_tokens_estimate == 150

\* len(tokenizer.encode("\n**Synthesized Answer:**"))
answer_prefix_tokens == 1

\* the messages a chat history is made of: a role and the content's tokens
Messages == [role : {"user", "assistant"}, content : {1, 4}]

\* len(tokenizer.encode(f"{msg.role.capitalize()}: {msg.content}\n"))
msg_tokens(msg) == 2 + msg.content

\* number of decimal digits of a positive number
Digits(n) == IF n < 10 THEN 1 ELSE 2

\* len(tokenizer.encode(chunk_prefix + content + chunk_separator)), where
\* chunk_prefix is "*{ordinal}. (Transcript ID: {transcript_id}):*\n"
chunk_tokens(ordinal, chunk_dict) ==
    (1 + Digits(ordinal) + Digits(chunk_dict.transcript_id))
    + chunk_dict.content + 1

(***************************************************************************)
(* Context budget planner (rag_service.py 225-293)                         *)
(***************************************************************************)
Min(a, b) == IF a <= b THEN a ELSE b

\* variant: the override is ignored
target_tokens_without_override(st) ==
    st.model_context_window - st.answer_buffer_tokens

\* lines 229-235
target_tokens(st) ==
    LET target_limit == st.model_context_window - st.answer_buffer_tokens
    IN  IF st.context_target_tokens # NoTarget /\ st.context_target_tokens > 0
        THEN Min(st.context_target_tokens, target_limit)
        ELSE target_limit

\* line 244
fixed_tokens(q) ==
    system_prompt_tokens + query_tokens(q) + formatting_tokens_estimate
    + answer_prefix_tokens

\* variant: the fixed cost is not taken off the target
available_tokens_without_fixed(target, fixed) ==
    IF target <= 0 THEN 0 ELSE target

\* lines 245-250
available_tokens(target, fixed) ==
    IF target - fixed <= 0 THEN 0 ELSE target - fixed

\* one pass of the loop of lines 256-266 at message i (history is walked from
\* its last message to its first): take the message if it fits, else break
RECURSIVE history_loop(_, _, _, _, _)
history_loop(history, i, available, selected_history, current_history_tokens) ==
    IF i = 0
    THEN [selected |-> selected_history, tokens |-> current_history_tokens]
    ELSE LET msg == history[i]
         IN  IF current_history_tokens + msg_tokens(msg) <= available
             THEN history_loop(history, i - 1, available,
                               <<msg>> \o selected_history,
                               current_history_tokens + msg_tokens(msg))
             ELSE [selected |-> selected_history, tokens |-> current_history_tokens]

\* variant: a message that does not fit is skipped and the walk goes on
RECURSIVE history_loop_continue(_, _, _, _, _)
history_loop_continue(history, i, available, selected_history, current_history_tokens) ==
    IF i = 0
    THEN [selected |-> selected_history, tokens |-> current_history_tokens]
    ELSE LET msg == history[i]
         IN  IF current_history_tokens + msg_tokens(msg) <= available
             THEN history_loop_continue(history, i - 1, available,
                                        <<msg>> \o selected_history,
                                        current_history_tokens + msg_tokens(msg))
             ELSE history_loop_continue(history, i - 1, available,
                                        selected_history, current_history_tokens)

select_history_continue(history, available) ==
    history_loop_continue(history, Len(history), available, <<>>, 0)

\* lines 253-268: selected_history and current_history_tokens
select_history(history, available) ==
    IF history # <<>>
    THEN history_loop(history, Len(history), available, <<>>, 0)
    ELSE [selected |-> <<>>, tokens |-> 0]

\* one pass of the loop of lines 273-290 at position i of the list (enumerate
\* counts from 0, the prefix shows i + 1): take the dictionary if it fits,
\* else break
RECURSIVE chunk_loop(_, _, _, _, _)
chunk_loop(data, i, available, selected_chunks, current_chunk_tokens) ==
    IF i > Len(data)
    THEN [selected |-> selected_chunks, tokens |-> current_chunk_tokens]
    ELSE LET tokens == chunk_tokens(i, data[i])
         IN  IF current_chunk_tokens + tokens <= available
             THEN chunk_loop(data, i + 1, available,
                             Append(selected_chunks, data[i]),
                             current_chunk_tokens + tokens)
             ELSE [selected |-> selected_chunks, tokens |-> current_chunk_tokens]

\* variant: a dictionary that does not fit is skipped and the walk goes on
RECURSIVE chunk_loop_continue(_, _, _, _, _)
chunk_loop_continue(data, i, available, selected_chunks, current_chunk_tokens) ==
    IF i > Len(data)
    THEN [selected |-> selected_chunks, tokens |-> current_chunk_tokens]
    ELSE LET tokens == chunk_tokens(i, data[i])
         IN  IF current_chunk_tokens + tokens <= available
             THEN chunk_loop_continue(data, i + 1, available,
                                      Append(selected_chunks, data[i]),
                                      current_chunk_tokens + tokens)
             ELSE chunk_loop_continue(data, i + 1, available,
                                      selected_chunks, current_chunk_tokens)

select_chunks_continue(data, available) ==
    chunk_loop_continue(data, 1, available, <<>>, 0)

\* lines 271-293: selected_chunks and current_chunk_tokens
select_chunks(data, available) == chunk_loop(data, 1, available, <<>>, 0)

\* steps 3-5 of answer_question for one budget, history and candidate list
PlanContext(st, q, history, data) ==
    LET target == target_tokens(st)
        fixed == fixed_tokens(q)
        available == available_tokens(target, fixed)
        hist == select_history(history, available)
        left == available - hist.tokens
        chunks == select_chunks(data, left)
    IN  [target_tokens |-> target, fixed_tokens |-> fixed,
         available_tokens |-> available,
         selected_history |-> hist.selected,
         chunk_budget |-> left,
         selected_chunks |-> chunks.selected,
         remaining_tokens |-> left - chunks.tokens]

(***************************************************************************)
(* Prompt assembly (rag_service.py 304-344)                                *)
(***************************************************************************)
NoExcerptsMarker == "No relevant transcript excerpts could fit in the context window."

\* variant: an empty selection leaves the context block empty
AssemblePrompt_without_marker(selected_history, selected_chunks, q) ==
    [system |-> "SYSTEM_PROMPT_TEMPLATE",
     history |-> [i \in DOMAIN selected_history |->
                     <<selected_history[i].role, selected_history[i].content>>],
     context |-> [i \in DOMAIN selected_chunks |->
                     [ordinal |-> i,
                      transcript_id |-> selected_chunks[i].transcript_id,
                      content |-> selected_chunks[i].content]],
     question |-> q,
     cue |-> "Synthesized Answer:"]

\* variant: the excerpts are numbered from 0 (enumerate's index)
AssemblePrompt_zero_based(selected_history, selected_chunks, q) ==
    [system |-> "SYSTEM_PROMPT_TEMPLATE",
     history |-> [i \in DOMAIN selected_history |->
                     <<selected_history[i].role, selected_history[i].content>>],
     context |-> IF selected_chunks # <<>>
                 THEN [i \in DOMAIN selected_chunks |->
                          [ordinal |-> i - 1,
                           transcript_id |-> selected_chunks[i].transcript_id,
                           content |-> selected_chunks[i].content]]
                 ELSE <<NoExcerptsMarker>>,
     question |-> q,
     cue |-> "Synthesized Answer:"]

\* variant: the prefix of an excerpt carries its transcript's start time
\* (the lines commented out at 321-329)
AssemblePrompt_with_start_time(selected_history, selected_chunks, q) ==
    [system |-> "SYSTEM_PROMPT_TEMPLATE",
     history |-> [i \in DOMAIN selected_history |->
                     <<selected_history[i].role, selected_history[i].content>>],
     context |-> IF selected_chunks # <<>>
                 THEN [i \in DOMAIN selected_chunks |->
                          [ordinal |-> i,
                           transcript_id |-> selected_chunks[i].transcript_id,
                           content |-> selected_chunks[i].content,
                           start |-> selected_chunks[i].transcript_start_time_iso]]
                 ELSE <<NoExcerptsMarker>>,
     question |-> q,
     cue |-> "Synthesized Answer:"]

\* final_prompt, as the parts joined in order
AssemblePrompt(selected_history, selected_chunks, q) ==
    [system |-> "SYSTEM_PROMPT_TEMPLATE",
     history |-> [i \in DOMAIN selected_history |->
                     <<selected_history[i].role, selected_history[i].content>>],
     context |-> IF selected_chunks # <<>>
                 THEN [i \in DOMAIN selected_chunks |->
                          [ordinal |-> i,
                           transcript_id |-> selected_chunks[i].transcript_id,
                           content |-> selected_chunks[i].content]]
                 ELSE <<NoExcerptsMarker>>,
     question |-> q,
     cue |-> "Synthesized Answer:"]

(***************************************************************************)
(* The fixed answers of answer_question                                    *)
(***************************************************************************)
DatesAnswer == "I have transcript data available for the following dates:"
NoDatesAnswer == "I could not find any dates with transcript data in the database."
DatesErrorAnswer == "I encountered an error while trying to determine the available transcript dates."
NoInformationAnswer == "I couldn't find any relevant information in the transcripts to answer your question."
ApologyAnswer == "I encountered an error while trying to generate an answer."
\* whatever text the model generated
LLMResponse == "llm_response"
\* no answer: the call has not returned one
NoAnswer == "none"

\* the calendar day of a start time: SUBSTR(start_time, 1, 10)
DateOf(t) == IF t < StartOfDay THEN 0 ELSE 1

\* crud.get_distinct_transcript_dates: the days that have a transcript, sorted
get_distinct_transcript_dates(d) ==
    LET days == {DateOf(d.start[t]) : t \in {u \in TranscriptIds : d.start[u] # NoTime}}
    IN  IF days = {} THEN <<>>
        ELSE IF days = {0, 1} THEN <<0, 1>>
        ELSE <<CHOOSE x \in days : TRUE>>

(***************************************************************************)
(* State                                                                   *)
(***************************************************************************)
VARIABLES
    db,                   \* the relational store
    db_conn,              \* a connection is passed as db_conn (not None)
    pc,                   \* "idle": no call running; "returned": a call ended
    query_text,           \* the arguments of the call
    k,
    retriever_calls,      \* calls of retriever.retrieve made by the call
    retrieval,            \* how that retrieve ended (a RetrieveOutcomes record)
    injection,            \* the transcript chosen for injection, the failed lookup
    retrieved_chunk_data, \* the candidate list as the budget planner gets it
    chat_history,         \* the history the budget planner gets
    settings,             \* get_settings() of the call
    plan,                 \* what the planner computed (a PlanContext record)
    final_prompt,         \* the assembled prompt, <<>> while there is none
    generate_calls,       \* calls of llm.generate made by the call
    llm_error,            \* llm.generate raised
    date_list,            \* the dates listed by the date answer
    dates_lookup,         \* how the date lookup ended
    answer,               \* the returned answer text
    excerpts_used,        \* the returned list of excerpts
    raised,               \* the call ended by raising instead of returning
    start_lookups,        \* lookups of lines 205-213 that succeeded in the call
    prev,                 \* the call before this one, as the caller saw it
    row_factory,          \* conn.row_factory of the shared connection
    callers,              \* the calls running in the thread pool, per thread
    filter_metadata,      \* the dictionary a caller of retrieve passes as filter_metadata
    INGESTION_STATUS,     \* the status dictionary of ingest/ingestion_service.py
    ingestion_tasks,      \* the background tasks of POST /ingest/start, per task
    source_ids,           \* transcripts.source_id of the rows of the transcripts table
    ingest_response,      \* what the last request to an /ingest endpoint was answered
    chunk_args,           \* the arguments of a call of chunk_text
    chunk_at,             \* where that call is: "called", "loop", "returned"
    chunk_start,          \* the local start of chunk_text
    chunk_list,           \* the local chunks of chunk_text, returned at the end
    ui_settings_file,     \* data/ui_settings.json
    ui_calls              \* the set_ui_* calls running in the thread pool, per thread

\* what answer_question and its callees work on
engine_vars ==
    <<db, db_conn, pc, query_text, k, retriever_calls, retrieval, injection,
      retrieved_chunk_data, chat_history, settings, plan, final_prompt,
      generate_calls, llm_error, date_list, dates_lookup, answer,
      excerpts_used, raised, start_lookups, prev>>

\* what the calls in the thread pool share and keep
conn_vars == <<row_factory, callers>>

\* the argument of retrieve that answer_question leaves out (line 108)
retriever_args == <<filter_metadata>>

\* what the ingestion endpoints and the pipeline work on
ingest_vars == <<INGESTION_STATUS, ingestion_tasks, source_ids, ingest_response>>

\* a call of chunk_text
chunk_vars == <<chunk_args, chunk_at, chunk_start, chunk_list>>

\* the persisted UI overrides and the calls that write them
ui_vars == <<ui_settings_file, ui_calls>>

\* the state outside the engine
outside_vars == <<conn_vars, ingest_vars, chunk_vars, ui_vars>>

\* the state outside one call of answer_question
other_vars == <<outside_vars, retriever_args>>

\* the state the calls in the thread pool leave alone
beside_conn == <<engine_vars, retriever_args, ingest_vars, chunk_vars, ui_vars>>

\* the state the ingestion endpoints and the pipeline leave alone
beside_ingest == <<engine_vars, retriever_args, conn_vars, chunk_vars, ui_vars>>

\* the state chunk_text leaves alone
beside_chunking == <<engine_vars, retriever_args, conn_vars, ingest_vars, ui_vars>>

\* the state the set_ui_* calls leave alone
beside_ui == <<engine_vars, retriever_args, conn_vars, ingest_vars, chunk_vars>>

vars == <<engine_vars, other_vars>>

\* values of the per-call variables before the stage that sets them is reached
NoRetrieval ==
    [chunks |-> <<>>, filter_calls |-> 0, filter_how |-> "none",
     embed_calls |-> 0, search_calls |-> 0,
     search_filter |-> NoFilter, error |-> "none", raised |-> FALSE]
NoInjection == [latest |-> NoId, db_error |-> "none"]
NoSettings ==
    [model_context_window |-> 0, answer_buffer_tokens |-> 0,
     context_target_tokens |-> NoTarget]
\* prev before any call has returned
NoPrev == [calls |-> 0]

NoPlan ==
    [target_tokens |-> 0, fixed_tokens |-> 0, available_tokens |-> 0,
     selected_history |-> <<>>, chunk_budget |-> 0, selected_chunks |-> <<>>,
     remaining_tokens |-> 0]

\* the locals of a call that has not started
Blank ==
    /\ query_text = ""
    /\ k = 0
    /\ retriever_calls = 0
    /\ retrieval = NoRetrieval
    /\ injection = NoInjection
    /\ retrieved_chunk_data = <<>>
    /\ chat_history = <<>>
    /\ settings = NoSettings
    /\ plan = NoPlan
    /\ final_prompt = <<>>
    /\ generate_calls = 0
    /\ llm_error = FALSE
    /\ date_list = <<>>
    /\ dates_lookup = "none"
    /\ answer = NoAnswer
    /\ excerpts_used = <<>>
    /\ raised = FALSE
    /\ start_lookups = 0

(***************************************************************************)
(* The shared connection.  get_db hands every request the one connection   *)
(* of the process (check_same_thread=False), and the chat endpoint runs    *)
(* answer_question in the thread pool, so calls interleave on it.  A       *)
(* cursor takes the connection's row_factory when it is created.           *)
(***************************************************************************)
\* sqlite3.Row: rows can be read by column name and turned into a dict
RowFactory == "sqlite3.Row"
\* Python None: rows are plain tuples
TupleFactory == "None"

\* variant: the connection is left with the row_factory sqlite3.connect gives
get_db_row_factory_default == TupleFactory

\* the row_factory get_db sets on the connection it creates
get_db_row_factory == RowFactory

\* the threads of the pool that run a call
Threads == {1, 2}

\* a thread that runs no call
NotCalling ==
    [pc |-> "idle", candidate |-> NoId, original_factory |-> "unset",
     cursor_factory |-> "unset", latest |-> NoId, rows |-> 0,
     failing |-> FALSE, start_added |-> FALSE, raised |-> FALSE,
     overlapped |-> FALSE]

\* no call runs in the thread pool
NoCallers == [t \in Threads |-> NotCalling]

\* a dictionary without a key: filter_metadata=None, which retrieve turns
\* into {} (retriever.py 108)
EmptyDict == [key \in {} |-> ""]

\* the connection as get_db hands it out, no call running
ConnIdle ==
    /\ row_factory = get_db_row_factory
    /\ callers = NoCallers

(***************************************************************************)
(* Ingestion.  INGESTION_STATUS is one dictionary of the process, written  *)
(* by POST /ingest/start (api/routers/ingestion.py) and by                 *)
(* run_ingestion_pipeline (ingest/ingestion_service.py), which the         *)
(* endpoint schedules as a background task.  Handlers and tasks are        *)
(* coroutines of one event loop: one runs until it awaits, and the only    *)
(* awaits of the pipeline are those of the fetch loop (line 67).           *)
(***************************************************************************)
\* ingestion_service.py 29
STAGES == <<"fetch", "db_load", "process">>

\* current_stage None
NoStage == "None"

\* ingestion_service.py 19-26 with main.py 58-64 (lifespan start-up)
InitialStatus ==
    [status |-> "idle", current_stage |-> NoStage, completed_stages |-> <<>>,
     last_error |-> "None"]

\* the tasks the model follows
TaskIds == {1, 2}

\* the source ids the Limitless API answers with
SourceIds == {"a", "b"}

\* a task that was not scheduled
NoTask ==
    [pc |-> "none", raw_transcripts |-> <<>>, loaded |-> 0, new_transcripts |-> 0,
     skipped_count |-> 0, processed |-> 0, duplicate |-> FALSE]

\* the positions at which a task is suspended and the event loop runs
\* something else: not scheduled, scheduled and not started, awaiting the
\* next item of the fetch loop (ingestion_service.py 67)
AwaitPoints == {"none", "scheduled", "fetch"}

\* no task is between two awaits
LoopFree == \A t \in TaskIds : ingestion_tasks[t].pc \in AwaitPoints

\* the tasks that were scheduled and have not ended
ActiveTasks == {t \in TaskIds : ingestion_tasks[t].pc # "none"}

\* the ingestion state after start-up
IngestIdle ==
    /\ INGESTION_STATUS = InitialStatus
    /\ ingestion_tasks = [t \in TaskIds |-> NoTask]
    /\ source_ids = {}
    /\ ingest_response = [to |-> "none", seq |-> 0, polling |-> FALSE, logged |-> "none"]

(***************************************************************************)
(* chunk_text (processing/chunking.py).  A text is the sequence of its     *)
(* characters; the characters of the texts below are their own positions   *)
(* 1 .. n, so a chunk shows which positions it holds.                      *)
(***************************************************************************)
\* chunking.py 10
DEFAULT_CHUNK_SIZE == 500
\* chunking.py 11
DEFAULT_CHUNK_OVERLAP == 50

\* the texts: "" and the texts of 1 .. MaxText characters
Texts == {[p \in 1 .. n |-> p] : n \in 0 .. MaxText}

\* the chunk sizes and overlaps a caller passes: negative, zero, small, the
\* defaults
ChunkSizes == (-1 .. MaxChunkSize) \cup {DEFAULT_CHUNK_SIZE}
ChunkOverlaps == (-1 .. MaxChunkSize + 1) \cup {DEFAULT_CHUNK_OVERLAP}

\* an index of a Python slice: a negative one counts from the end, and the
\* result is clamped to 0 .. len
SliceIndex(i, len) ==
    IF i < 0 THEN (IF i + len < 0 THEN 0 ELSE i + len)
    ELSE IF i > len THEN len ELSE i

\* text[a:b]
Slice(text, a, b) ==
    SubSeq(text, SliceIndex(a, Len(text)) + 1, SliceIndex(b, Len(text)))

\* min(a, b)
min(a, b) == IF a <= b THEN a ELSE b

\* variant of lines 39-41: the next chunk starts one past the end of this one
next_start_past_end(at, chunk_size, chunk_overlap) == at + chunk_size + 1

\* chunking.py 39-41
next_start(at, chunk_size, chunk_overlap) ==
    IF at + chunk_size - chunk_overlap <= at
    THEN at + 1
    ELSE at + chunk_size - chunk_overlap

\* no call of chunk_text
ChunkIdle ==
    /\ chunk_args = [text |-> <<>>, chunk_size |-> DEFAULT_CHUNK_SIZE,
                     chunk_overlap |-> DEFAULT_CHUNK_OVERLAP]
    /\ chunk_at = "idle"
    /\ chunk_start = 0
    /\ chunk_list = <<>>

(***************************************************************************)
(* The persisted UI overrides (core/config.py).  data/ui_settings.json     *)
(* holds a JSON object; update_settings (api/routers/settings.py 39-71) is *)
(* a plain def, so FastAPI runs each POST /settings/ in the thread pool    *)
(* and the set_ui_* calls of two requests interleave on the file.          *)
(***************************************************************************)
\* the values a form passes as default_model
ModelNames == {"", "m1", "m2"}

\* the values a form passes as context_target_tokens: None, an invalid
\* count, two valid ones
TargetValues == {NoTarget, -1, 1, 2}

\* d[key] = value
dict_set(d, key, value) ==
    [x \in (DOMAIN d) \cup {key} |-> IF x = key THEN value ELSE d[x]]

\* del d[key]
dict_del(d, key) == [x \in (DOMAIN d) \ {key} |-> d[x]]

\* the file with a JSON object in it; a missing file reads as {} too
FileOf(overrides) == [readable |-> TRUE, overrides |-> overrides]

\* the file just opened for writing (empty), or with the text of one
\* writer laid over the longer text of another: json.load raises
UnreadableFile == [readable |-> FALSE, overrides |-> EmptyDict]

\* config.py 30-40 _load_ui_overrides
load_ui_overrides(file) == IF file.readable THEN file.overrides ELSE EmptyDict

\* config.py 220-270 get_settings, the context_target_tokens it returns:
\* the override when the file has one, else the default None (line 81)
get_settings_context_target_tokens(file) ==
    LET ui_overrides == load_ui_overrides(file)
    IN  IF "context_target_tokens" \in DOMAIN ui_overrides
        THEN ui_overrides["context_target_tokens"]
        ELSE NoTarget

\* a thread that runs no set_ui_* call
NotSetting ==
    [pc |-> "idle", fn |-> "none", model_name |-> "", value |-> NoTarget,
     overrides |-> EmptyDict, overlaid |-> FALSE, saved |-> FALSE]

\* no settings request running, no override saved
UiIdle ==
    /\ ui_settings_file = FileOf(EmptyDict)
    /\ ui_calls = [t \in Threads |-> NotSetting]

\* the state outside the engine at its initial value
OutsideIdle == ConnIdle /\ IngestIdle /\ ChunkIdle /\ UiIdle

\* the state outside the call at its initial value
OthersIdle ==
    /\ OutsideIdle
    /\ filter_metadata = EmptyDict

Init ==
    /\ OthersIdle
    /\ db \in Stores
    /\ db_conn = TRUE
    /\ prev = NoPrev
    /\ pc = "idle"
    /\ Blank

(***************************************************************************)
(* RAGService.answer_question(query_text, db_conn, k), one action per way  *)
(* the call can end.  settings is read at line 67 on every path and used   *)
(* from line 226 on, so only the last path records it.                     *)
(***************************************************************************)
\* the injection result of a query without the cue (lines 124, 177 skipped)
NotInjected(data) ==
    [data |-> data, latest |-> NoId, db_error |-> "none", raised |-> FALSE]

\* lines 122-173 for the query
Injection(q, d, data) ==
    IF is_today_query(q) THEN InjectOutcomes(d, data) ELSE {NotInjected(data)}

\* lines 177-195 for the query
Resorted(q, data) == IF is_today_query(q) THEN SortByRecency(data) ELSE data

\* variant: the call goes on to generation with an empty context
NothingRetrievedResult_generates ==
    [answer |-> LLMResponse, excerpts_used |-> <<>>, generate_calls |-> 1]

\* lines 114-116: what the call returns when nothing was retrieved, and the
\* calls of llm.generate it has made by then
NothingRetrievedResult ==
    [answer |-> NoInformationAnswer, excerpts_used |-> <<>>, generate_calls |-> 0]

\* variant: the exception of llm.generate is logged and re-raised
GenerateResult_reraises(generated, selected_chunks) ==
    IF generated
    THEN [answer |-> LLMResponse, excerpts_used |-> selected_chunks, raised |-> FALSE]
    ELSE [answer |-> NoAnswer, excerpts_used |-> <<>>, raised |-> TRUE]

\* lines 358-368: what the call returns once llm.generate returned or raised
GenerateResult(generated, selected_chunks) ==
    IF generated
    THEN [answer |-> LLMResponse, excerpts_used |-> selected_chunks, raised |-> FALSE]
    ELSE [answer |-> ApologyAnswer, excerpts_used |-> selected_chunks, raised |-> FALSE]

\* lines 69-100 when the date lookup ended as how
AnswerDateListWith(q, kk, how) ==
    /\ pc = "idle"
    /\ is_direct_date_list_query(q)
    /\ LET \* crud catches a sqlite3.Error and returns the empty list
           distinct_dates ==
               IF how = "ok" THEN get_distinct_transcript_dates(db) ELSE <<>>
       IN  /\ dates_lookup' = how
           /\ date_list' = IF how = "error" THEN <<>> ELSE distinct_dates
           /\ answer' = IF how = "error" THEN DatesErrorAnswer
                        ELSE IF distinct_dates # <<>> THEN DatesAnswer
                        ELSE NoDatesAnswer
    /\ query_text' = q
    /\ k' = kk
    /\ excerpts_used' = <<>>
    /\ raised' = FALSE
    /\ start_lookups' = 0
    /\ pc' = "returned"
    /\ UNCHANGED <<other_vars, db, db_conn, prev, retriever_calls, retrieval, injection, retrieved_chunk_data,
                   chat_history, settings, plan, final_prompt, generate_calls,
                   llm_error>>

\* lines 69-100: the normalised text is one of the date-list phrases
AnswerDateList(q, kk) ==
    /\ pc = "idle"
    /\ \E how \in {"ok", "store_error", "error"} : AnswerDateListWith(q, kk, how)

\* lines 108-116 when retrieve ended as r, without a candidate
AnswerNothingRetrievedWith(q, kk, r) ==
    /\ pc = "idle"
    /\ ~is_direct_date_list_query(q)
    /\ ~r.raised
    /\ r.chunks = <<>>
    /\ retrieval' = r
    /\ retriever_calls' = 1
    /\ query_text' = q
    /\ k' = kk
    /\ answer' = NothingRetrievedResult.answer
    /\ excerpts_used' = NothingRetrievedResult.excerpts_used
    /\ generate_calls' = NothingRetrievedResult.generate_calls
    /\ raised' = FALSE
    /\ start_lookups' = 0
    /\ pc' = "returned"
    /\ UNCHANGED <<other_vars, db, db_conn, prev, injection, retrieved_chunk_data, chat_history, settings, plan,
                   final_prompt, llm_error, date_list, dates_lookup>>

\* lines 108-116: the retriever returned no candidate
AnswerNothingRetrieved(q, kk) ==
    /\ pc = "idle"
    /\ \E r \in RetrieveOutcomes(q, kk, db, db_conn) :
          AnswerNothingRetrievedWith(q, kk, r)

\* what lines 122-173 do after a retrieve that ended as r
InjectionAfter(q, d, r) ==
    IF r.raised \/ r.chunks = <<>> THEN {NotInjected(<<>>)}
    ELSE Injection(q, d, r.chunks)

\* the call when retrieve ended as r and the injection as inj, and one of
\* them raised
AnswerRaisesWith(q, kk, r, inj) ==
    /\ pc = "idle"
    /\ ~is_direct_date_list_query(q)
    /\ retrieval' = r
    /\ \/ /\ r.raised
          /\ injection' = NoInjection
       \/ /\ ~r.raised
          /\ r.chunks # <<>>
          /\ inj.raised
          /\ injection' = [latest |-> inj.latest, db_error |-> inj.db_error]
    /\ retriever_calls' = 1
    /\ query_text' = q
    /\ k' = kk
    /\ answer' = NoAnswer
    /\ excerpts_used' = <<>>
    /\ raised' = TRUE
    /\ start_lookups' = 0
    /\ pc' = "returned"
    /\ UNCHANGED <<other_vars, db, db_conn, prev, retrieved_chunk_data, chat_history, settings, plan,
                   final_prompt, generate_calls, llm_error, date_list, dates_lookup>>

\* an exception leaves answer_question: from retrieve (line 108) or from the
\* lookup of the parent transcript (line 135)
AnswerRaises(q, kk) ==
    /\ pc = "idle"
    /\ \E r \in RetrieveOutcomes(q, kk, db, db_conn) :
          \E inj \in InjectionAfter(q, db, r) : AnswerRaisesWith(q, kk, r, inj)

\* lines 108-368 when retrieve ended as r with candidates, the injection as
\* inj, the first n start-time lookups succeeded, get_settings returned st
\* and llm.generate returned (generated) or raised
AnswerFromContextWith(q, kk, r, inj, n, st, generated) ==
    /\ pc = "idle"
    /\ ~is_direct_date_list_query(q)
    /\ ~r.raised
    /\ r.chunks # <<>>
    /\ retrieval' = r
    /\ ~inj.raised
    /\ injection' = [latest |-> inj.latest, db_error |-> inj.db_error]
    /\ n \in 0 .. Len(inj.data)
    /\ st \in SettingsSet
    /\ LET data == AddStartTimeUpTo(db, Resorted(q, inj.data), n)
           p == PlanContext(st, q, <<>>, data)
           res == GenerateResult(generated, p.selected_chunks)
       IN  /\ start_lookups' = n
           /\ db' = StoreAfterCall(db, data)
           /\ retrieved_chunk_data' = data
           /\ chat_history' = <<>>
           /\ settings' = st
           /\ plan' = p
           /\ final_prompt' = AssemblePrompt(p.selected_history, p.selected_chunks, q)
           /\ llm_error' = ~generated
           /\ answer' = IF res.raised THEN NoAnswer ELSE res.answer
           /\ excerpts_used' = IF res.raised THEN <<>> ELSE res.excerpts_used
           /\ raised' = res.raised
    /\ generate_calls' = 1
    /\ retriever_calls' = 1
    /\ query_text' = q
    /\ k' = kk
    /\ pc' = "returned"
    /\ UNCHANGED <<other_vars, db_conn, prev, date_list, dates_lookup>>

\* lines 108-368: candidates were retrieved; inject, sort, add the start
\* times, plan the budget, assemble the prompt, generate
AnswerFromContext(q, kk) ==
    /\ pc = "idle"
    /\ \E r \in RetrieveOutcomes(q, kk, db, db_conn) :
          \E inj \in InjectionAfter(q, db, r) :
              \E n \in 0 .. Len(inj.data), st \in SettingsSet, generated \in BOOLEAN :
                  AnswerFromContextWith(q, kk, r, inj, n, st, generated)

\* the locals of a call are gone
Forget ==
    /\ query_text' = ""
    /\ k' = 0
    /\ retriever_calls' = 0
    /\ retrieval' = NoRetrieval
    /\ injection' = NoInjection
    /\ retrieved_chunk_data' = <<>>
    /\ chat_history' = <<>>
    /\ settings' = NoSettings
    /\ plan' = NoPlan
    /\ final_prompt' = <<>>
    /\ generate_calls' = 0
    /\ llm_error' = FALSE
    /\ date_list' = <<>>
    /\ dates_lookup' = "none"
    /\ answer' = NoAnswer
    /\ excerpts_used' = <<>>
    /\ raised' = FALSE
    /\ start_lookups' = 0

\* the caller has the result
Return ==
    /\ pc = "returned"
    /\ pc' = "idle"
    /\ Forget
    /\ UNCHANGED <<other_vars, db, db_conn, prev>>

answer_question(q, kk) ==
    \/ AnswerDateList(q, kk)
    \/ AnswerNothingRetrieved(q, kk)
    \/ AnswerRaises(q, kk)
    \/ AnswerFromContext(q, kk)

Next ==
    \/ \E q \in Queries, kk \in 1 .. MaxK : answer_question(q, kk)
    \/ Return

Spec == Init /\ [][Next]_vars

(***************************************************************************)
(* The budget planner and the assembler on their own: steps 2-6 of         *)
(* answer_question (lines 221-344) applied to a supplied chat history.     *)
(* answer_question itself sets chat_history to the empty list (line 223).  *)
(***************************************************************************)
\* the stores behind the candidates handed to the planner: no transcript has
\* a start time, or each started today, so that the candidates come without
\* or with transcript_start_time_iso (lines 205-213)
PlannerStores ==
    {[start |-> [t \in TranscriptIds |-> s], nchunks |-> 0,
      start_in_metadata |-> FALSE] : s \in {NoTime, StartOfDay}}

Histories == UNION {[1 .. m -> Messages] : m \in 0 .. MaxHistory}

InitPlanner ==
    /\ OthersIdle
    /\ db \in PlannerStores
    /\ db_conn = TRUE
    /\ prev = NoPrev
    /\ pc = "budgeting"
    /\ query_text = "who spoke at todays standup"
    /\ k = MaxK
    /\ retriever_calls = 1
    /\ retrieval = NoRetrieval
    /\ injection = NoInjection
    /\ retrieved_chunk_data \in
          {AddStartTimeUpTo(db, data, Len(data)) :
              data \in VectorQuery(db, MaxK, NoFilter) \ {<<>>}}
    /\ chat_history \in Histories
    /\ settings \in SettingsSet
    /\ plan = NoPlan
    /\ final_prompt = <<>>
    /\ generate_calls = 0
    /\ llm_error = FALSE
    /\ date_list = <<>>
    /\ dates_lookup = "none"
    /\ answer = NoAnswer
    /\ excerpts_used = <<>>
    /\ raised = FALSE
    /\ start_lookups = 0

\* lines 225-344 on the history, the candidates and the settings at hand
PlanBudget ==
    /\ pc = "budgeting"
    /\ LET p == PlanContext(settings, query_text, chat_history, retrieved_chunk_data)
       IN  /\ plan' = p
           /\ final_prompt' =
                 AssemblePrompt(p.selected_history, p.selected_chunks, query_text)
           /\ excerpts_used' = p.selected_chunks
    /\ pc' = "planned"
    /\ UNCHANGED <<other_vars, db, db_conn, prev, query_text, k, retriever_calls, retrieval, injection,
                   retrieved_chunk_data, chat_history, settings, generate_calls,
                   llm_error, date_list, dates_lookup, answer, raised,
                   start_lookups>>

NextPlanner == PlanBudget

SpecPlanner == InitPlanner /\ [][NextPlanner]_vars

(***************************************************************************)
(* SimilarityRetriever.retrieve on its own, called with or without a       *)
(* connection (db_conn is Optional there, retriever.py 84) and with or     *)
(* without a filter_metadata dictionary (line 83).                         *)
(***************************************************************************)
\* what a caller passes as filter_metadata: nothing, or an additional filter
FilterArguments == {EmptyDict, [source |-> "limitless"]}

\* dict.update (retriever.py 116): the today filter put under its key
UpdatedWith(final_filter, transcript_ids) ==
    [key \in DOMAIN final_filter \cup {"transcript_id"} |->
        IF key = "transcript_id" THEN transcript_ids ELSE final_filter[key]]

\* lines 108-118: final_filter is the caller's dictionary itself when that
\* is not empty (`filter_metadata or {}`), so the update of line 116 is made
\* in the caller's dictionary; today_filter is what line 114 returned
FilterArgumentAfter(q, argument, conn, today_filter) ==
    IF q # "" /\ is_today_query(q) /\ conn /\ today_filter # NoFilter
       /\ DOMAIN argument # {}
    THEN UpdatedWith(argument, today_filter)
    ELSE argument

\* the keys of the filter vector_store.query was called with (lines 135-152)
KeysOfFilterSent(r) ==
    IF r.search_filter = NoFilter THEN {} ELSE {"transcript_id"}

InitRetriever ==
    /\ OutsideIdle
    /\ filter_metadata \in FilterArguments
    /\ db \in Stores
    /\ db_conn \in BOOLEAN
    /\ prev = NoPrev
    /\ pc = "retrieving"
    /\ query_text \in Queries
    /\ k \in 1 .. MaxK
    /\ retriever_calls = 0
    /\ retrieval = NoRetrieval
    /\ injection = NoInjection
    /\ retrieved_chunk_data = <<>>
    /\ chat_history = <<>>
    /\ settings = NoSettings
    /\ plan = NoPlan
    /\ final_prompt = <<>>
    /\ generate_calls = 0
    /\ llm_error = FALSE
    /\ date_list = <<>>
    /\ dates_lookup = "none"
    /\ answer = NoAnswer
    /\ excerpts_used = <<>>
    /\ raised = FALSE
    /\ start_lookups = 0

\* retrieve(query_text, k, db_conn=db_conn), lines 104-162
Retrieve ==
    /\ pc = "retrieving"
    /\ retrieval' \in RetrieveOutcomes(query_text, k, db, db_conn)
    /\ \E first \in TodayFilterOutcomes(db, db_conn) :
          filter_metadata' =
              FilterArgumentAfter(query_text, filter_metadata, db_conn, first.filter)
    /\ retriever_calls' = 1
    /\ pc' = "retrieved"
    /\ UNCHANGED <<outside_vars, db, db_conn, prev, query_text, k, injection, retrieved_chunk_data,
                   chat_history, settings, plan, final_prompt, generate_calls,
                   llm_error, date_list, dates_lookup, answer, excerpts_used, raised,
                   start_lookups>>

NextRetriever == Retrieve

SpecRetriever == InitRetriever /\ [][NextRetriever]_vars

(***************************************************************************)
(* Two calls of answer_question in a row on the same RAGService (the       *)
(* singleton of get_generator), the second with the arguments of the       *)
(* first and with every dependency answering as it did the first time.     *)
(***************************************************************************)
\* the stores as run_ingestion_pipeline fills them: the metadata of a vector
\* store entry is the transcript id only (ingestion_service.py 156) and the
\* chunks table gets no row (lines 128-172 write to the vector store alone)
InitTwice ==
    /\ OthersIdle
    /\ db \in {d \in Stores : ~d.start_in_metadata /\ d.nchunks = 0}
    /\ db_conn = TRUE
    /\ prev = NoPrev
    /\ pc = "idle"
    /\ Blank

FirstCall ==
    /\ prev.calls = 0
    /\ \E q \in Queries : answer_question(q, MaxK)

\* the caller keeps the result of the first call
ReturnFirst ==
    /\ pc = "returned"
    /\ prev.calls = 0
    /\ prev' = [calls |-> 1, query_text |-> query_text, k |-> k,
                retrieval |-> retrieval, injection |-> injection,
                start_lookups |-> start_lookups, settings |-> settings,
                llm_error |-> llm_error, dates_lookup |-> dates_lookup,
                answer |-> answer, excerpts_used |-> excerpts_used,
                raised |-> raised]
    /\ pc' = "idle"
    /\ Forget
    /\ UNCHANGED <<other_vars, db, db_conn>>

\* the retrieve of the second call: the same calls made, the same failures
\* and the same identifiers in the same order as the first time, each record
\* as the vector store holds it now
SameRetrieval ==
    [prev.retrieval EXCEPT
        !.chunks = [i \in DOMAIN @ |-> RetrievedDoc(db, @[i].id)]]

SecondCall ==
    /\ prev.calls = 1
    /\ pc = "idle"
    /\ LET q == prev.query_text
           kk == prev.k
           r == SameRetrieval
       IN  \/ AnswerDateListWith(q, kk, prev.dates_lookup)
           \/ /\ r \in RetrieveOutcomes(q, kk, db, db_conn)
              /\ \/ AnswerNothingRetrievedWith(q, kk, r)
                 \/ \E inj \in InjectionAfter(q, db, r) :
                       /\ inj.latest = prev.injection.latest
                       /\ inj.db_error = prev.injection.db_error
                       /\ \/ AnswerRaisesWith(q, kk, r, inj)
                          \/ AnswerFromContextWith(q, kk, r, inj, prev.start_lookups,
                                                   prev.settings, ~prev.llm_error)

NextTwice == FirstCall \/ ReturnFirst \/ SecondCall

SpecTwice == InitTwice /\ [][NextTwice]_vars

(***************************************************************************)
(* Calls of answer_question running at once in the thread pool             *)
(* (chat.py 78-80: run_in_threadpool) on the connection get_db returns.    *)
(* Each thread runs one call with the recency cue whose search returned an *)
(* excerpt of the transcript `candidate`; a step is one statement that     *)
(* reads or writes the connection.  The stores do not change and no lookup *)
(* fails in the store.                                                     *)
(***************************************************************************)
\* the steps of crud.get_transcript_by_id, for the lookup of the parent of
\* the injected rows (rag_service.py 135) and for the lookup of the start
\* time of a candidate (rag_service.py 209)
AfterCursor(at) == IF at = "parent_cursor" THEN "parent_save" ELSE "start_save"
AfterSave(at) == IF at = "parent_save" THEN "parent_set" ELSE "start_set"
AfterSet(at) == IF at = "parent_set" THEN "parent_fetch" ELSE "start_fetch"
AfterFetch(at) == IF at = "parent_fetch" THEN "parent_restore" ELSE "start_restore"

\* between the statement that sets conn.row_factory and the one that
\* restores it
InWindow(at) ==
    at \in {"chunks_fetch", "chunks_restore", "parent_fetch", "parent_restore",
            "start_fetch", "start_restore"}

\* some other thread is inside its window
OthersInWindow(t) == \E u \in Threads \ {t} : InWindow(callers[u].pc)

\* rag_service.py 53: the call starts in thread t
CallStarts(t) ==
    /\ callers[t].pc = "idle"
    /\ \E c \in TranscriptIds :
          callers' = [callers EXCEPT ![t] = [@ EXCEPT !.pc = "latest", !.candidate = c]]
    /\ UNCHANGED <<beside_conn, row_factory>>

\* crud.py 659-663: conn.execute makes a cursor with the row_factory of the
\* moment; result["id"] needs a Row (a tuple raises TypeError, which
\* `except sqlite3.Error` lets through, and rag_service.py 126 is in no try)
LatestLookup(t) ==
    /\ callers[t].pc = "latest"
    /\ LET found == get_latest_transcript_id_for_today(db)
       IN  callers' = [callers EXCEPT ![t] =
              IF found = NoId THEN [@ EXCEPT !.pc = "start_cursor"]
              ELSE IF row_factory = RowFactory
                   THEN [@ EXCEPT !.pc = "chunks_save", !.latest = found,
                                  !.overlapped = @ \/ OthersInWindow(t)]
                   ELSE [@ EXCEPT !.pc = "done", !.raised = TRUE,
                                  !.overlapped = @ \/ OthersInWindow(t)]]
    /\ UNCHANGED <<beside_conn, row_factory>>

\* crud.py 674: original_factory = conn.row_factory
ChunksSave(t) ==
    /\ callers[t].pc = "chunks_save"
    /\ callers' = [callers EXCEPT ![t] =
          [@ EXCEPT !.pc = "chunks_set", !.original_factory = row_factory]]
    /\ UNCHANGED <<beside_conn, row_factory>>

\* crud.py 675: conn.row_factory = sqlite3.Row
ChunksSet(t) ==
    /\ callers[t].pc = "chunks_set"
    /\ row_factory' = RowFactory
    /\ callers' = [callers EXCEPT ![t] = [@ EXCEPT !.pc = "chunks_fetch"]]
    /\ UNCHANGED beside_conn

\* crud.py 677-682: the cursor is made now; dict(row) needs a Row
ChunksFetch(t) ==
    /\ callers[t].pc = "chunks_fetch"
    /\ LET rows == get_chunks_by_transcript_id(db, callers[t].latest)
       IN  callers' = [callers EXCEPT ![t] =
              [@ EXCEPT !.pc = "chunks_restore",
                        !.cursor_factory = row_factory,
                        !.rows = IF row_factory = RowFactory THEN Len(rows) ELSE 0,
                        !.failing = rows # <<>> /\ row_factory # RowFactory,
                        !.overlapped = @ \/ OthersInWindow(t)]]
    /\ UNCHANGED <<beside_conn, row_factory>>

\* crud.py 685-686: finally, conn.row_factory = original_factory; a TypeError
\* of dict(row) then leaves get_chunks_by_transcript_id and the call
ChunksRestore(t) ==
    /\ callers[t].pc = "chunks_restore"
    /\ row_factory' = callers[t].original_factory
    /\ callers' = [callers EXCEPT ![t] =
          IF @.failing THEN [@ EXCEPT !.pc = "done", !.raised = TRUE, !.failing = FALSE]
          ELSE [@ EXCEPT !.pc = "parent_cursor"]]
    /\ UNCHANGED beside_conn

\* crud.py 144: cursor = conn.cursor(), before the row_factory is set
TranscriptCursor(t) ==
    /\ callers[t].pc \in {"parent_cursor", "start_cursor"}
    /\ callers' = [callers EXCEPT ![t] =
          [@ EXCEPT !.pc = AfterCursor(@), !.cursor_factory = row_factory,
                    !.overlapped = @ \/ OthersInWindow(t)]]
    /\ UNCHANGED <<beside_conn, row_factory>>

\* crud.py 147: original_factory = conn.row_factory
TranscriptSave(t) ==
    /\ callers[t].pc \in {"parent_save", "start_save"}
    /\ callers' = [callers EXCEPT ![t] =
          [@ EXCEPT !.pc = AfterSave(@), !.original_factory = row_factory]]
    /\ UNCHANGED <<beside_conn, row_factory>>

\* crud.py 148: conn.row_factory = sqlite3.Row
TranscriptSet(t) ==
    /\ callers[t].pc \in {"parent_set", "start_set"}
    /\ row_factory' = RowFactory
    /\ callers' = [callers EXCEPT ![t] = [@ EXCEPT !.pc = AfterSet(@)]]
    /\ UNCHANGED beside_conn

\* crud.py 150-154: fetchone on the cursor of line 144; dict(row) needs a Row
TranscriptFetch(t) ==
    /\ callers[t].pc \in {"parent_fetch", "start_fetch"}
    /\ callers' = [callers EXCEPT ![t] =
          [@ EXCEPT !.pc = AfterFetch(@),
                    !.failing = callers[t].cursor_factory # RowFactory]]
    /\ UNCHANGED <<beside_conn, row_factory>>

\* crud.py 176-178: finally, conn.row_factory = original_factory.  A TypeError
\* of dict(row) leaves the call at rag_service.py 135 and is swallowed at
\* lines 216-218
TranscriptRestore(t) ==
    /\ callers[t].pc \in {"parent_restore", "start_restore"}
    /\ row_factory' = callers[t].original_factory
    /\ callers' = [callers EXCEPT ![t] =
          IF @.pc = "parent_restore"
          THEN IF @.failing
               THEN [@ EXCEPT !.pc = "done", !.raised = TRUE, !.failing = FALSE]
               ELSE [@ EXCEPT !.pc = "start_cursor"]
          ELSE [@ EXCEPT !.pc = "done", !.failing = FALSE,
                         !.start_added =
                             /\ ~callers[t].failing
                             /\ get_transcript_by_id(db, callers[t].candidate) # NoTime]]
    /\ UNCHANGED beside_conn

NextConcurrent ==
    \E t \in Threads :
        \/ CallStarts(t)
        \/ LatestLookup(t)
        \/ ChunksSave(t)
        \/ ChunksSet(t)
        \/ ChunksFetch(t)
        \/ ChunksRestore(t)
        \/ TranscriptCursor(t)
        \/ TranscriptSave(t)
        \/ TranscriptSet(t)
        \/ TranscriptFetch(t)
        \/ TranscriptRestore(t)

SpecConcurrent == Init /\ [][NextConcurrent]_vars

(***************************************************************************)
(* The ingestion endpoints and run_ingestion_pipeline.  A handler runs     *)
(* from start to end without an await, so it is one step, taken when no    *)
(* task is between two awaits; a task's step is one block of statements    *)
(* that ends at a write of INGESTION_STATUS, at an await or at the return. *)
(* What the Limitless API, SQLite, the embedding service and the vector    *)
(* store answer is chosen freely.                                          *)
(***************************************************************************)
\* variant of the check of ingestion.py 92: the request is never refused
already_running_unchecked(status) == FALSE

\* ingestion.py 92
already_running(status) == status.status = "running"

\* variant of the finally block: the status is left as it is
pipeline_finally_kept(status) == status

\* ingestion_service.py 209-217 (finally)
pipeline_finally(status) ==
    IF status.status = "running"
    THEN [status EXCEPT !.status = "error",
                        !.last_error = "Pipeline exited unexpectedly."]
    ELSE status

\* ingestion_service.py 201-207 (except Exception), then the finally block
pipeline_failed(status) ==
    pipeline_finally([status EXCEPT !.status = "error",
                                    !.last_error = "Error in stage"])

\* crud.py 45-95 create_transcript: the UNIQUE constraint on source_id
\* (schema.py) makes the INSERT fail, and lines 88-90 raise the error again
create_transcript(stored, source_id) ==
    IF source_id \in stored THEN "IntegrityError" ELSE "created"

\* variant of the update that starts a run: completed_stages is kept
started_keeping_stages(status) ==
    [status EXCEPT !.status = "running", !.current_stage = "fetch",
                   !.last_error = "None"]

\* ingestion.py 119-126 and ingestion_service.py 49-57: the update that
\* starts a run
started(status) ==
    [status EXCEPT !.status = "running", !.current_stage = "fetch",
                   !.completed_stages = <<>>, !.last_error = "None"]

\* the response of an /ingest endpoint, numbered modulo 2
Response(to, polling, logged) ==
    [to |-> to, seq |-> 1 - ingest_response.seq, polling |-> polling,
     logged |-> logged]

\* the task the next add_task creates
NextTask == CHOOSE t \in TaskIds :
                /\ ingestion_tasks[t].pc = "none"
                /\ \A u \in TaskIds : ingestion_tasks[u].pc = "none" => t <= u

\* ingestion.py 80-137: POST /ingest/start
start_ingestion ==
    /\ LoopFree
    /\ IF already_running(INGESTION_STATUS)
       THEN /\ ingest_response' = Response("start", TRUE, "already running")
            /\ UNCHANGED <<INGESTION_STATUS, ingestion_tasks>>
       ELSE /\ \E t \in TaskIds : ingestion_tasks[t].pc = "none"
            /\ ingest_response' = Response("start", TRUE, "task added")
            /\ ingestion_tasks' =
                  [ingestion_tasks EXCEPT ![NextTask] = [NoTask EXCEPT !.pc = "scheduled"]]
            /\ INGESTION_STATUS' =
                  started(INGESTION_STATUS)
    /\ UNCHANGED <<beside_ingest, source_ids>>

\* ingestion.py 140-158: GET /ingest/status
get_ingestion_status ==
    /\ LoopFree
    /\ ingest_response' =
          Response("status", INGESTION_STATUS.status = "running", "polling")
    /\ UNCHANGED <<beside_ingest, INGESTION_STATUS, ingestion_tasks, source_ids>>

\* the task t moves to `at` with the status dictionary `status`
TaskGoes(t, at, status) ==
    /\ ingestion_tasks' = [ingestion_tasks EXCEPT ![t] = [@ EXCEPT !.pc = at]]
    /\ INGESTION_STATUS' = status

\* a task that is suspended is resumed only when no other is running
MayRun(t) == \A u \in TaskIds \ {t} : ingestion_tasks[u].pc \in AwaitPoints

\* ingestion_service.py 48-67: the task starts after the response was sent
\* and runs up to the first await of the fetch loop
PipelineStarts(t) ==
    /\ ingestion_tasks[t].pc = "scheduled"
    /\ MayRun(t)
    /\ TaskGoes(t, "fetch",
                started(INGESTION_STATUS))
    /\ UNCHANGED <<beside_ingest, source_ids, ingest_response>>

\* ingestion_service.py 67-68: the client yields a transcript
FetchYields(t) ==
    /\ ingestion_tasks[t].pc = "fetch"
    /\ MayRun(t)
    /\ Len(ingestion_tasks[t].raw_transcripts) < MaxFetched
    /\ \E s \in SourceIds :
          ingestion_tasks' =
              [ingestion_tasks EXCEPT ![t] =
                  [@ EXCEPT !.raw_transcripts = Append(@, s)]]
    /\ UNCHANGED <<beside_ingest, INGESTION_STATUS, source_ids, ingest_response>>

\* ingestion_service.py 67, 201-217: the client raises (an HTTP error, a
\* timeout)
FetchRaises(t) ==
    /\ ingestion_tasks[t].pc = "fetch"
    /\ MayRun(t)
    /\ TaskGoes(t, "returned", pipeline_failed(INGESTION_STATUS))
    /\ UNCHANGED <<beside_ingest, source_ids, ingest_response>>

\* ingestion_service.py 67, 209-217: the task is cancelled while it awaits;
\* CancelledError is no Exception, only the finally block runs
PipelineCancelled(t) ==
    /\ ingestion_tasks[t].pc = "fetch"
    /\ MayRun(t)
    /\ TaskGoes(t, "returned", pipeline_finally(INGESTION_STATUS))
    /\ UNCHANGED <<beside_ingest, source_ids, ingest_response>>

\* ingestion_service.py 67-72: the client is exhausted
FetchEnds(t) ==
    /\ ingestion_tasks[t].pc = "fetch"
    /\ MayRun(t)
    /\ TaskGoes(t, "fetched",
                [INGESTION_STATUS EXCEPT !.completed_stages = Append(@, "fetch")])
    /\ UNCHANGED <<beside_ingest, source_ids, ingest_response>>

\* ingestion_service.py 75-79
DbLoadBegins(t) ==
    /\ ingestion_tasks[t].pc = "fetched"
    /\ TaskGoes(t, "db_load", [INGESTION_STATUS EXCEPT !.current_stage = "db_load"])
    /\ UNCHANGED <<beside_ingest, source_ids, ingest_response>>

\* ingestion_service.py 80-116: one pass of the loop over the fetched
\* transcripts; an exception of create_transcript leaves the loop and the
\* try block (201-217)
SaveTranscript(t) ==
    LET task == ingestion_tasks[t]
        source_id == task.raw_transcripts[task.loaded + 1]
        created == create_transcript(source_ids, source_id)
    IN  /\ task.pc = "db_load"
        /\ task.loaded < Len(task.raw_transcripts)
        /\ CASE created = "created" ->
                  /\ source_ids' = source_ids \cup {source_id}
                  /\ ingestion_tasks' =
                        [ingestion_tasks EXCEPT ![t] =
                            [@ EXCEPT !.loaded = @ + 1,
                                      !.new_transcripts = @ + 1]]
                  /\ UNCHANGED INGESTION_STATUS
             [] created = "no_id" ->
                  /\ ingestion_tasks' =
                        [ingestion_tasks EXCEPT ![t] =
                            [@ EXCEPT !.loaded = @ + 1,
                                      !.skipped_count = @ + 1,
                                      !.duplicate = TRUE]]
                  /\ UNCHANGED <<INGESTION_STATUS, source_ids>>
             [] OTHER ->
                  /\ ingestion_tasks' =
                        [ingestion_tasks EXCEPT ![t] =
                            [@ EXCEPT !.pc = "returned", !.duplicate = TRUE]]
                  /\ INGESTION_STATUS' = pipeline_failed(INGESTION_STATUS)
                  /\ UNCHANGED source_ids
        /\ UNCHANGED <<beside_ingest, ingest_response>>

\* ingestion_service.py 118-120: the loop is done
DbLoadEnds(t) ==
    /\ ingestion_tasks[t].pc = "db_load"
    /\ ingestion_tasks[t].loaded = Len(ingestion_tasks[t].raw_transcripts)
    /\ TaskGoes(t, "db_loaded",
                [INGESTION_STATUS EXCEPT !.completed_stages = Append(@, "db_load")])
    /\ UNCHANGED <<beside_ingest, source_ids, ingest_response>>

\* ingestion_service.py 123-125
ProcessBegins(t) ==
    /\ ingestion_tasks[t].pc = "db_loaded"
    /\ TaskGoes(t, "process", [INGESTION_STATUS EXCEPT !.current_stage = "process"])
    /\ UNCHANGED <<beside_ingest, source_ids, ingest_response>>

\* ingestion_service.py 128-172: one pass of the loop over the saved
\* transcripts, embedded and added to the vector store (or left out: no
\* chunks, a mismatch of the counts)
ProcessTranscript(t) ==
    /\ ingestion_tasks[t].pc = "process"
    /\ ingestion_tasks[t].processed < ingestion_tasks[t].new_transcripts
    /\ ingestion_tasks' =
          [ingestion_tasks EXCEPT ![t] = [@ EXCEPT !.processed = @ + 1]]
    /\ UNCHANGED <<beside_ingest, INGESTION_STATUS, source_ids, ingest_response>>

\* ingestion_service.py 174-183, 209-217: the embedding service or the
\* vector store raises; the status is set and the function returns
ProcessRaises(t) ==
    /\ ingestion_tasks[t].pc = "process"
    /\ ingestion_tasks[t].processed < ingestion_tasks[t].new_transcripts
    /\ TaskGoes(t, "returned",
                pipeline_finally([INGESTION_STATUS EXCEPT !.status = "error",
                                                          !.current_stage = "process",
                                                          !.last_error =
                                                              "Error processing transcript"]))
    /\ UNCHANGED <<beside_ingest, source_ids, ingest_response>>

\* ingestion_service.py 185-192: the loop is done
ProcessEnds(t) ==
    /\ ingestion_tasks[t].pc = "process"
    /\ ingestion_tasks[t].processed = ingestion_tasks[t].new_transcripts
    /\ TaskGoes(t, "processed",
                [INGESTION_STATUS EXCEPT !.completed_stages = Append(@, "process")])
    /\ UNCHANGED <<beside_ingest, source_ids, ingest_response>>

\* ingestion_service.py 194-199, 209-217
PipelineCompletes(t) ==
    /\ ingestion_tasks[t].pc = "processed"
    /\ TaskGoes(t, "returned",
                pipeline_finally([INGESTION_STATUS EXCEPT !.status = "complete",
                                                          !.current_stage = NoStage]))
    /\ UNCHANGED <<beside_ingest, source_ids, ingest_response>>

\* ingestion.py 52: run_background_ingestion ends after the pipeline
\* returned
TaskEnds(t) ==
    /\ ingestion_tasks[t].pc = "returned"
    /\ ingestion_tasks' = [ingestion_tasks EXCEPT ![t] = NoTask]
    /\ UNCHANGED <<beside_ingest, INGESTION_STATUS, source_ids, ingest_response>>

\* the steps of the task t
PipelineStep(t) ==
    \/ PipelineStarts(t)
    \/ FetchYields(t)
    \/ FetchRaises(t)
    \/ PipelineCancelled(t)
    \/ FetchEnds(t)
    \/ DbLoadBegins(t)
    \/ SaveTranscript(t)
    \/ DbLoadEnds(t)
    \/ ProcessBegins(t)
    \/ ProcessTranscript(t)
    \/ ProcessRaises(t)
    \/ ProcessEnds(t)
    \/ PipelineCompletes(t)
    \/ TaskEnds(t)

\* the process after start-up, the transcripts table as earlier runs left it
InitIngestion ==
    /\ ConnIdle
    /\ filter_metadata = EmptyDict
    /\ INGESTION_STATUS = InitialStatus
    /\ ingestion_tasks = [t \in TaskIds |-> NoTask]
    /\ source_ids \in SUBSET SourceIds
    /\ ingest_response = [to |-> "none", seq |-> 0, polling |-> FALSE, logged |-> "none"]
    /\ ChunkIdle
    /\ UiIdle
    /\ db \in {d \in Stores : d.nchunks = 0 /\ ~d.start_in_metadata
                                /\ \A t \in TranscriptIds : d.start[t] = NoTime}
    /\ db_conn = TRUE
    /\ prev = NoPrev
    /\ pc = "idle"
    /\ Blank

NextIngestion ==
    \/ start_ingestion
    \/ get_ingestion_status
    \/ \E t \in TaskIds : PipelineStep(t)

SpecIngestion == InitIngestion /\ [][NextIngestion]_vars

\* the event loop runs every task that can run, and a request to the
\* Limitless API ends (the client sets a timeout)
SpecIngestionFair ==
    /\ SpecIngestion
    /\ \A t \in TaskIds : WF_vars(PipelineStep(t))

(***************************************************************************)
(* chunk_text(text, chunk_size, chunk_overlap) step by step: the test of   *)
(* lines 29-33, then one step per pass of the while loop (34-45).          *)
(***************************************************************************)
\* chunking.py 29-33
chunk_text_begins ==
    /\ chunk_at = "called"
    /\ chunk_at' = IF chunk_args.text = <<>> THEN "returned" ELSE "loop"
    /\ chunk_start' = 0
    /\ chunk_list' = <<>>
    /\ UNCHANGED <<beside_chunking, chunk_args>>

\* chunking.py 34-45, and 47-50 when the loop is left
chunk_text_pass ==
    LET text == chunk_args.text
        end == min(chunk_start + chunk_args.chunk_size, Len(text))
    IN  /\ chunk_at = "loop"
        /\ chunk_start < Len(text)
        /\ chunk_list' = Append(chunk_list, Slice(text, chunk_start, end))
        /\ chunk_start' = next_start(chunk_start, chunk_args.chunk_size, chunk_args.chunk_overlap)
        /\ chunk_at' = IF chunk_start' >= Len(text) THEN "returned" ELSE "loop"
        /\ UNCHANGED <<beside_chunking, chunk_args>>

\* a call with any text, chunk_size and chunk_overlap
InitChunking ==
    /\ ConnIdle
    /\ IngestIdle
    /\ filter_metadata = EmptyDict
    /\ chunk_args \in [text : Texts, chunk_size : ChunkSizes,
                        chunk_overlap : ChunkOverlaps]
    /\ chunk_at = "called"
    /\ chunk_start = 0
    /\ chunk_list = <<>>
    /\ UiIdle
    /\ db \in {d \in Stores : d.nchunks = 0 /\ ~d.start_in_metadata
                                /\ \A t \in TranscriptIds : d.start[t] = NoTime}
    /\ db_conn = TRUE
    /\ prev = NoPrev
    /\ pc = "idle"
    /\ Blank

NextChunking ==
    \/ chunk_text_begins
    \/ chunk_text_pass

\* the call runs on: nothing but its own loop keeps it from returning
SpecChunking == InitChunking /\ [][NextChunking]_vars /\ WF_vars(NextChunking)

(***************************************************************************)
(* set_ui_default_model and set_ui_context_target_tokens, one call per     *)
(* thread, a step per access to the file: the read of _load_ui_overrides,  *)
(* the open(..., 'w') of _save_ui_overrides, which empties the file, and   *)
(* the write of json.dump when the file is closed.                         *)
(***************************************************************************)
\* the key a call writes
KeyOf(call) ==
    IF call.fn = "set_ui_default_model" THEN "default_model"
    ELSE "context_target_tokens"

\* config.py 168-171: set_ui_default_model(model_name) is called in thread t
SetDefaultModelStarts(t) ==
    /\ ui_calls[t].pc = "idle"
    /\ \E name \in ModelNames :
          ui_calls' = [ui_calls EXCEPT ![t] =
              [@ EXCEPT !.fn = "set_ui_default_model", !.model_name = name,
                        !.pc = IF name = "" THEN "done" ELSE "load"]]
    /\ UNCHANGED <<beside_ui, ui_settings_file>>

\* config.py 205-206: set_ui_context_target_tokens(value) is called in
\* thread t
SetContextTargetStarts(t) ==
    /\ ui_calls[t].pc = "idle"
    /\ \E value \in TargetValues :
          ui_calls' = [ui_calls EXCEPT ![t] =
              [@ EXCEPT !.fn = "set_ui_context_target_tokens", !.value = value,
                        !.pc = "load"]]
    /\ UNCHANGED <<beside_ui, ui_settings_file>>

\* config.py 172-173 and 207-218: the file is read and the dictionary changed
LoadOverrides(t) ==
    LET call == ui_calls[t]
        overrides == load_ui_overrides(ui_settings_file)
    IN  /\ call.pc = "load"
        /\ ui_calls' = [ui_calls EXCEPT ![t] =
              IF call.fn = "set_ui_default_model"
              THEN [@ EXCEPT !.overrides =
                                dict_set(overrides, "default_model", call.model_name),
                             !.pc = "open"]
              ELSE IF call.value # NoTarget /\ call.value > 0
              THEN [@ EXCEPT !.overrides =
                                dict_set(overrides, "context_target_tokens", call.value),
                             !.pc = "open"]
              ELSE IF call.value = NoTarget
                      /\ "context_target_tokens" \in DOMAIN overrides
              THEN [@ EXCEPT !.overrides = dict_del(overrides, "context_target_tokens"),
                             !.pc = "open"]
              ELSE [@ EXCEPT !.overrides = overrides, !.pc = "done"]]
        /\ UNCHANGED <<beside_ui, ui_settings_file>>

\* config.py 45-46: open(UI_SETTINGS_PATH, 'w') empties the file
OpenForWriting(t) ==
    /\ ui_calls[t].pc = "open"
    /\ ui_settings_file' = UnreadableFile
    /\ ui_calls' = [ui_calls EXCEPT ![t] = [@ EXCEPT !.pc = "dump", !.overlaid = FALSE]]
    /\ UNCHANGED beside_ui

\* config.py 46-48: json.dump, written from offset 0 when the file is
\* closed.  When another writer wrote since this one opened the file, its
\* text stays behind the end of this one where it was longer, and the
\* file is this writer's object or no JSON at all.
DumpOverrides(t) ==
    /\ ui_calls[t].pc = "dump"
    /\ \/ ui_settings_file' = FileOf(ui_calls[t].overrides)
       \/ /\ ui_calls[t].overlaid
          /\ ui_settings_file' = UnreadableFile
    /\ ui_calls' =
          [u \in Threads |->
              IF u = t THEN [ui_calls[u] EXCEPT !.pc = "done", !.saved = TRUE]
              ELSE IF ui_calls[u].pc = "dump"
                   THEN [ui_calls[u] EXCEPT !.overlaid = TRUE]
                   ELSE ui_calls[u]]
    /\ UNCHANGED beside_ui

\* the overrides an earlier session left in the file
SavedOverrides ==
    {EmptyDict, [default_model |-> "m1"], [context_target_tokens |-> 1],
     [default_model |-> "m1", context_target_tokens |-> 1]}

InitSettings ==
    /\ ConnIdle
    /\ IngestIdle
    /\ ChunkIdle
    /\ filter_metadata = EmptyDict
    /\ ui_settings_file \in {FileOf(overrides) : overrides \in SavedOverrides}
    /\ ui_calls = [t \in Threads |-> NotSetting]
    /\ db \in {d \in Stores : d.nchunks = 0 /\ ~d.start_in_metadata
                                /\ \A t \in TranscriptIds : d.start[t] = NoTime}
    /\ db_conn = TRUE
    /\ prev = NoPrev
    /\ pc = "idle"
    /\ Blank

NextSettings ==
    \E t \in Threads :
        \/ SetDefaultModelStarts(t)
        \/ SetContextTargetStarts(t)
        \/ LoadOverrides(t)
        \/ OpenForWriting(t)
        \/ DumpOverrides(t)

SpecSettings == InitSettings /\ [][NextSettings]_vars

(***************************************************************************)
(* Properties                                                              *)
(***************************************************************************)
\* the call (or the planner run) got as far as an assembled prompt
ReachedPlanner == final_prompt # <<>>

\* the identifiers in the candidate list the planner got
CandidateIds == {retrieved_chunk_data[i].id : i \in DOMAIN retrieved_chunk_data}

\* the identifiers in the list the retriever returned
RetrievedIds == {retrieval.chunks[i].id : i \in DOMAIN retrieval.chunks}

\* the tokens of a list of messages as the prompt renders them
RECURSIVE history_tokens(_)
history_tokens(selected) ==
    IF selected = <<>> THEN 0
    ELSE history_tokens(Prefix(selected, Len(selected) - 1))
         + msg_tokens(selected[Len(selected)])

\* the tokens of a list of excerpts as the prompt renders them, each under the
\* ordinal of its position
RECURSIVE rendered_chunk_tokens(_)
rendered_chunk_tokens(selected) ==
    IF selected = <<>> THEN 0
    ELSE rendered_chunk_tokens(Prefix(selected, Len(selected) - 1))
         + chunk_tokens(Len(selected), selected[Len(selected)])

\* tokens of the selected history plus the selected excerpts as rendered
SelectedTokens ==
    history_tokens(plan.selected_history) + rendered_chunk_tokens(plan.selected_chunks)

\* C1 as stated: selected history + selected excerpts + fixed cost never exceed
\* the effective target, also when the fixed cost alone exceeds it.
C1_BudgetNeverExceeded ==
    ReachedPlanner => SelectedTokens + plan.fixed_tokens <= plan.target_tokens

\* C1 amended: when the fixed cost is within the effective target, selected
\* history + selected excerpts + fixed cost stay within it; when the fixed cost
\* exceeds it, nothing is selected (and the total is the fixed cost).
C1_BudgetRespectedWhenFixedFits ==
    ReachedPlanner =>
        IF plan.fixed_tokens <= plan.target_tokens
        THEN SelectedTokens + plan.fixed_tokens <= plan.target_tokens
        ELSE plan.selected_history = <<>> /\ plan.selected_chunks = <<>>

\* a budget that takes some history and some, but not all, excerpts
C1_Witness ==
    /\ ReachedPlanner
    /\ plan.fixed_tokens <= plan.target_tokens
    /\ plan.selected_history # <<>>
    /\ plan.selected_chunks # <<>>
    /\ Len(plan.selected_chunks) < Len(retrieved_chunk_data)

\* C2: the selected excerpts are the first n candidates in candidate order,
\* n is where the first candidate that does not fit stands, and nothing behind
\* that candidate is selected; the returned list is that selection.
C2_ExcerptsArePrefix ==
    ReachedPlanner =>
        LET n == Len(plan.selected_chunks)
        IN  /\ n <= Len(retrieved_chunk_data)
            /\ plan.selected_chunks = Prefix(retrieved_chunk_data, n)
            /\ rendered_chunk_tokens(plan.selected_chunks) <= plan.chunk_budget
            /\ n < Len(retrieved_chunk_data) =>
                  rendered_chunk_tokens(Prefix(retrieved_chunk_data, n + 1))
                      > plan.chunk_budget
            /\ (pc = "returned" /\ ~raised) => excerpts_used = plan.selected_chunks

\* a recency-resorted list whose first rejected candidate is followed by one
\* that would have fitted in its place
C2_Witness ==
    /\ ReachedPlanner
    /\ pc = "returned"
    /\ is_today_query(query_text)
    /\ injection.latest # NoId
    /\ LET n == Len(plan.selected_chunks)
       IN  \E j \in (n + 2) .. Len(retrieved_chunk_data) :
              rendered_chunk_tokens(plan.selected_chunks)
                  + chunk_tokens(n + 1, retrieved_chunk_data[j]) <= plan.chunk_budget

\* C3: the selected history is the m newest messages, oldest first, m is where
\* the first message that does not fit stands (walking back from the newest),
\* and the excerpts get the budget less the tokens of the selected history.
C3_HistoryIsNewestSuffix ==
    ReachedPlanner =>
        \E m \in 0 .. Len(chat_history) :
            /\ plan.selected_history = Suffix(chat_history, m)
            /\ history_tokens(plan.selected_history) <= plan.available_tokens
            /\ m < Len(chat_history) =>
                  history_tokens(Suffix(chat_history, m + 1)) > plan.available_tokens
            /\ plan.chunk_budget =
                  plan.available_tokens - history_tokens(plan.selected_history)
            /\ rendered_chunk_tokens(plan.selected_chunks) <= plan.chunk_budget

\* a newer message was rejected although an older one would have fitted, and
\* what the history left over still took an excerpt
C3_Witness ==
    /\ ReachedPlanner
    /\ LET m == Len(plan.selected_history)
       IN  /\ m >= 1
           /\ \E i \in 1 .. (Len(chat_history) - m - 1) :
                 history_tokens(plan.selected_history) + msg_tokens(chat_history[i])
                     <= plan.available_tokens
    /\ plan.selected_chunks # <<>>
    /\ plan.chunk_budget < plan.available_tokens

\* started today, at any time of the day
StartedToday(t) == db.start[t] >= StartOfDay /\ db.start[t] < EndOfDay

\* started today before the time of the call
StartedTodayBeforeNow(t) == db.start[t] >= StartOfDay /\ db.start[t] < Now

\* every row of the chunks table owned by t stands in the candidate list
AllExcerptsAreCandidates(t) ==
    \A i \in 0 .. (db.nchunks - 1) : <<t, i>> \in CandidateIds

\* C4 as stated: a query with the cue, a transcript that started today: every
\* excerpt of the most recent such transcript is a candidate, whatever the
\* search returned, nothing included.
C4_LatestExcerptsAlwaysCandidates ==
    (pc = "returned" /\ is_today_query(query_text)) =>
        \A t \in TranscriptIds :
            (/\ StartedToday(t)
             /\ \A u \in TranscriptIds :
                   StartedToday(u) =>
                       \/ db.start[u] < db.start[t]
                       \/ db.start[u] = db.start[t] /\ u <= t)
            => AllExcerptsAreCandidates(t)

\* C4 amended: a query with the cue, at least one candidate retrieved, the
\* lookups of the latest transcript and of its excerpts succeeded and the call
\* reached the planner: every excerpt of the transcript with the latest start
\* time in [start of day, now) is a candidate.
C4_LatestExcerptsCandidatesAfterRetrieval ==
    (/\ pc = "returned"
     /\ is_today_query(query_text)
     /\ ReachedPlanner
     /\ injection.db_error = "none") =>
        \A t \in TranscriptIds :
            (/\ StartedTodayBeforeNow(t)
             /\ \A u \in TranscriptIds :
                   StartedTodayBeforeNow(u) =>
                       \/ db.start[u] < db.start[t]
                       \/ db.start[u] = db.start[t] /\ u <= t)
            => AllExcerptsAreCandidates(t)

\* the search returned an excerpt of another transcript and exactly one of the
\* latest transcript's excerpts; the others were injected
C4_Witness ==
    /\ pc = "returned"
    /\ is_today_query(query_text)
    /\ ReachedPlanner
    /\ injection.db_error = "none"
    /\ injection.latest # NoId
    /\ db.nchunks >= 2
    /\ Cardinality({id \in RetrievedIds : id[1] = injection.latest}) = 1
    /\ \E id \in RetrievedIds : id[1] # injection.latest
    /\ AllExcerptsAreCandidates(injection.latest)

\* C5 as stated: for a query with the cue the candidate list is in
\* non-increasing order of the owning transcript's start time, candidates of
\* transcripts without a start time last.
C5_CandidatesInRecencyOrder ==
    (ReachedPlanner /\ is_today_query(query_text)) =>
        \A i, j \in DOMAIN retrieved_chunk_data :
            i < j => db.start[retrieved_chunk_data[i].transcript_id]
                        >= db.start[retrieved_chunk_data[j].transcript_id]

\* C6: nothing retrieved for a query that is no date-list query: the fixed
\* answer, no excerpts, no call of the generation interface.
C6_NothingRetrievedAnswer ==
    (/\ pc = "returned"
     /\ NormalizedQuery(query_text) \notin date_list_phrases
     /\ retriever_calls = 1
     /\ ~retrieval.raised
     /\ retrieval.chunks = <<>>) =>
        /\ ~raised
        /\ answer = NoInformationAnswer
        /\ excerpts_used = <<>>
        /\ generate_calls = 0

\* the search ran and found nothing
C6_Witness ==
    /\ pc = "returned"
    /\ query_text = "who spoke at todays standup"
    /\ retrieval.search_calls = 1
    /\ retrieval.error = "none"
    /\ retrieval.chunks = <<>>
    /\ answer = NoInformationAnswer

\* C7: a query whose normalised text is a date-list phrase returns one of the
\* three date answers with no excerpts, and the call made no call of the
\* retriever, the embedding interface, the vector search or the generation
\* interface, however the date lookup ended.
C7_DateListBypassesRetrieval ==
    (pc = "returned" /\ NormalizedQuery(query_text) \in date_list_phrases) =>
        /\ ~raised
        /\ retriever_calls = 0
        /\ retrieval.filter_calls = 0
        /\ retrieval.embed_calls = 0
        /\ retrieval.search_calls = 0
        /\ generate_calls = 0
        /\ excerpts_used = <<>>
        /\ answer = CASE dates_lookup = "error" -> DatesErrorAnswer
                      [] dates_lookup = "ok" /\ date_list # <<>> -> DatesAnswer
                      [] OTHER -> NoDatesAnswer

\* a query that needs normalising, answered with the two days of the store
C7_Witness ==
    /\ pc = "returned"
    /\ query_text = "Available Dates?"
    /\ dates_lookup = "ok"
    /\ date_list = <<0, 1>>
    /\ answer = DatesAnswer

\* C8: llm.generate raised: the call returns the apology and exactly the
\* excerpts selected for (and rendered in) the prompt.
C8_GenerationFailureReturnsApology ==
    (pc = "returned" /\ llm_error) =>
        /\ ~raised
        /\ answer = ApologyAnswer
        /\ excerpts_used = plan.selected_chunks
        /\ IF excerpts_used = <<>> THEN final_prompt.context = <<NoExcerptsMarker>>
           ELSE /\ Len(final_prompt.context) = Len(excerpts_used)
                /\ \A i \in DOMAIN excerpts_used :
                      /\ final_prompt.context[i].transcript_id = excerpts_used[i].transcript_id
                      /\ final_prompt.context[i].content = excerpts_used[i].content

\* generation failed on a prompt that holds excerpts
C8_Witness ==
    /\ pc = "returned"
    /\ llm_error
    /\ generate_calls = 1
    /\ excerpts_used # <<>>
    /\ answer = ApologyAnswer

\* C9: retrieve does not raise; when embed_query or the vector search raised
\* it returned the empty list; an empty query text returns the empty list with
\* no call of the embedding interface or the vector store.
C9_RetrieveNeverRaises ==
    (pc = "returned" /\ retriever_calls = 1) =>
        /\ ~retrieval.raised
        /\ retrieval.error # "none" => retrieval.chunks = <<>>
        /\ query_text = "" =>
              /\ retrieval.chunks = <<>>
              /\ retrieval.embed_calls = 0
              /\ retrieval.search_calls = 0

\* the vector search raised after the query was embedded
C9_Witness ==
    /\ pc = "returned"
    /\ retriever_calls = 1
    /\ retrieval.error = "search"
    /\ retrieval.embed_calls = 1
    /\ retrieval.chunks = <<>>
    /\ ~raised

\* C10 as stated: a store failure during recency injection never makes the
\* call raise; it still returns an answer and a list of excerpts.
C10_InjectionFailureNeverRaises ==
    (pc = "returned" /\ is_today_query(query_text) /\ injection.db_error # "none") =>
        /\ ~raised
        /\ answer # NoAnswer

\* what lines 229-235 make of the settings of the call, written out
TargetOfSettings ==
    LET target_limit == settings.model_context_window - settings.answer_buffer_tokens
        override == settings.context_target_tokens
    IN  IF override # NoTarget /\ override > 0
        THEN (IF override <= target_limit THEN override ELSE target_limit)
        ELSE target_limit

\* C11 as stated: the effective target is min(override, window - reserved)
\* with a positive override and window - reserved without one, and it is 0
\* whenever that value is negative.
C11_TargetClampedAtZero ==
    ReachedPlanner =>
        plan.target_tokens = IF TargetOfSettings < 0 THEN 0 ELSE TargetOfSettings

\* C11 amended: the effective target is min(override, window - reserved) with
\* a positive override and window - reserved without one, negative values
\* included; what is set to 0 is the budget left after the fixed cost, so a
\* negative target selects nothing.
C11_TargetFromSettings ==
    ReachedPlanner =>
        /\ plan.target_tokens = TargetOfSettings
        /\ plan.target_tokens < 0 =>
              /\ plan.available_tokens = 0
              /\ plan.selected_history = <<>>
              /\ plan.selected_chunks = <<>>

\* an override above window - reserved: the target is window - reserved
C11_Witness ==
    /\ ReachedPlanner
    /\ pc = "returned"
    /\ settings.context_target_tokens > 0
    /\ settings.context_target_tokens
          > settings.model_context_window - settings.answer_buffer_tokens
    /\ plan.target_tokens
          = settings.model_context_window - settings.answer_buffer_tokens
    /\ plan.selected_chunks # <<>>

\* C12: the fixed cost is at least the effective target and candidates were
\* retrieved: the call that gets to budgeting does not refuse; it selects no
\* history and no excerpt, puts the 'no excerpts fit' marker in the context
\* block and calls the generation interface exactly once with that prompt.
C12_EmptyContextStillGenerates ==
    (/\ pc = "returned"
     /\ ReachedPlanner
     /\ retrieval.chunks # <<>>
     /\ plan.fixed_tokens >= plan.target_tokens) =>
        /\ ~raised
        /\ plan.available_tokens = 0
        /\ plan.selected_history = <<>>
        /\ plan.selected_chunks = <<>>
        /\ final_prompt.history = <<>>
        /\ final_prompt.context = <<NoExcerptsMarker>>
        /\ final_prompt.question = query_text
        /\ generate_calls = 1
        /\ answer \in {LLMResponse, ApologyAnswer}
        /\ answer = LLMResponse <=> ~llm_error
        /\ excerpts_used = <<>>

\* the fixed cost equals the target, two candidates were retrieved, the model
\* answered
C12_Witness ==
    /\ pc = "returned"
    /\ ReachedPlanner
    /\ Len(retrieval.chunks) = 2
    /\ plan.fixed_tokens = plan.target_tokens
    /\ final_prompt.context = <<NoExcerptsMarker>>
    /\ generate_calls = 1
    /\ answer = LLMResponse

\* the identifiers of a list of candidates, in list order
IdsOf(data) == [i \in DOMAIN data |-> data[i].id]

C14_NoCueNoRecencyStep ==
    (ReachedPlanner /\ query_text # "What was said TODAY?") =>
        /\ injection = NoInjection
        /\ IdsOf(retrieved_chunk_data) = IdsOf(retrieval.chunks)

\* 'todays' is no cue: a transcript of today has rows to inject and the
\* retrieved candidates carry start times in ascending order, yet the list
\* is the retriever's
C14_Witness ==
    /\ ReachedPlanner
    /\ pc = "returned"
    /\ query_text = "who spoke at todays standup"
    /\ get_latest_transcript_id_for_today(db) # NoId
    /\ db.nchunks > 0
    /\ Len(retrieval.chunks) = 2
    /\ retrieval.chunks[1].transcript_start_time_iso # NoTime
    /\ retrieval.chunks[1].transcript_start_time_iso
          < retrieval.chunks[2].transcript_start_time_iso
    /\ IdsOf(retrieved_chunk_data) = IdsOf(retrieval.chunks)

\* C15: after injection every retrieved candidate is still in the list, no
\* two candidates share an identifier, and what was added is exactly the
\* excerpts of the latest transcript that the search had not returned.
C15_InjectionDeduplicates ==
    (ReachedPlanner /\ is_today_query(query_text)) =>
        LET injected_ids ==
                IF injection.latest # NoId /\ injection.db_error = "none"
                THEN {<<injection.latest, i>> : i \in 0 .. (db.nchunks - 1)}
                ELSE {}
        IN  /\ RetrievedIds \subseteq CandidateIds
            /\ \A i, j \in DOMAIN retrieved_chunk_data :
                  i # j => retrieved_chunk_data[i].id # retrieved_chunk_data[j].id
            /\ CandidateIds = RetrievedIds \cup injected_ids
            /\ Len(retrieved_chunk_data)
                  = Len(retrieval.chunks) + Cardinality(injected_ids \ RetrievedIds)

\* the search returned one of the two excerpts of the latest transcript and
\* an excerpt of another transcript; one excerpt was added
C15_Witness ==
    /\ ReachedPlanner
    /\ pc = "returned"
    /\ is_today_query(query_text)
    /\ injection.latest # NoId
    /\ injection.db_error = "none"
    /\ db.nchunks = 2
    /\ Len(retrieval.chunks) = 2
    /\ \E i, j \in DOMAIN retrieval.chunks :
          /\ retrieval.chunks[i].transcript_id = injection.latest
          /\ retrieval.chunks[j].transcript_id # injection.latest
    /\ Len(retrieved_chunk_data) = 3

\* the call got to the lookup of the latest transcript (line 126)
ReachedInjection ==
    /\ pc = "returned"
    /\ is_today_query(query_text)
    /\ retriever_calls = 1
    /\ ~retrieval.raised
    /\ retrieval.chunks # <<>>

\* t has the latest start time among the transcripts of S, the highest
\* identifier among those that share it
IsLatestOf(t, S) ==
    /\ t \in S
    /\ \A u \in S : \/ db.start[u] < db.start[t]
                    \/ db.start[u] = db.start[t] /\ u <= t

\* C16 as stated: the transcript chosen for injection has the latest start
\* time among all transcripts of the current UTC day, the highest identifier
\* among equals, and none is chosen only when the day has no transcript.
C16_LatestOfWholeDay ==
    ReachedInjection =>
        IF \E t \in TranscriptIds : StartedToday(t)
        THEN injection.latest # NoId /\ IsLatestOf(injection.latest,
                                                  {t \in TranscriptIds : StartedToday(t)})
        ELSE injection.latest = NoId

\* C16 amended: the transcript chosen has the latest start time among the
\* transcripts that started in [start of the UTC day, now), the highest
\* identifier among equals; none is chosen when there is no such transcript
\* or when the store lookup failed.
C16_LatestBeforeNow ==
    ReachedInjection =>
        IF injection.db_error # "latest"
           /\ \E t \in TranscriptIds : StartedTodayBeforeNow(t)
        THEN injection.latest # NoId
             /\ IsLatestOf(injection.latest,
                           {t \in TranscriptIds : StartedTodayBeforeNow(t)})
        ELSE injection.latest = NoId

\* both transcripts started today at the same time: the higher id is chosen
C16_Witness ==
    /\ ReachedInjection
    /\ injection.db_error = "none"
    /\ StartedTodayBeforeNow(1)
    /\ db.start[1] = db.start[2]
    /\ injection.latest = 2

\* the transcripts whose time range [start, end] meets [StartOfDay, EndOfDay)
OverlappingToday ==
    {t \in TranscriptIds :
        /\ db.start[t] # NoTime
        /\ db.start[t] < EndOfDay
        /\ end_time_of(db, t) >= StartOfDay}

\* C17 as stated: the filter of the day holds exactly the identifiers of the
\* transcripts whose time range overlaps [start of day, start of next day),
\* one that started the day before and ended within the day included.
C17_FilterHoldsOverlappingTranscripts ==
    (/\ pc = "returned"
     /\ retrieval.search_calls = 1
     /\ retrieval.search_filter # NoFilter) =>
        retrieval.search_filter = OverlappingToday

\* C18: building the filter never fails the query: with no transcript of
\* the day, with a store lookup that raised, or with no connection, the
\* builder yields no filter and the vector search is still made, unfiltered.
C18_FilterIsBestEffort ==
    (/\ pc = "retrieved"
     /\ query_text # ""
     /\ retrieval.error # "embed") =>
        /\ ~retrieval.raised
        /\ retrieval.error \in {"none", "search"}
        /\ retrieval.search_calls = 1
        /\ ~db_conn => retrieval.filter_how = "no_conn"
        /\ (db_conn /\ retrieval.filter_how # "error") =>
              retrieval.filter_how =
                  IF \E t \in TranscriptIds : StartedToday(t) THEN "ids" ELSE "empty"
        /\ retrieval.filter_how \in {"no_conn", "empty", "error"} =>
              retrieval.search_filter = NoFilter

\* the store lookup raised on a day that has a transcript; the search ran
\* unfiltered and returned an excerpt of a transcript of another day
C18_Witness ==
    /\ pc = "retrieved"
    /\ db_conn
    /\ retrieval.filter_how = "error"
    /\ retrieval.search_calls = 1
    /\ retrieval.search_filter = NoFilter
    /\ \E t \in TranscriptIds : StartedToday(t)
    /\ \E i \in DOMAIN retrieval.chunks :
          ~StartedToday(retrieval.chunks[i].transcript_id)

\* C19 as stated: within one call no stage is run again: the temporal filter
\* is built at most once, the query embedded at most once, the vector store
\* searched at most once, the generation interface called at most once and
\* only with an assembled prompt.
C19_EachStageAtMostOnce ==
    pc = "returned" =>
        /\ retriever_calls <= 1
        /\ retrieval.filter_calls <= 1
        /\ retrieval.embed_calls <= 1
        /\ retrieval.search_calls <= 1
        /\ generate_calls <= 1
        /\ generate_calls = 1 => ReachedPlanner

\* the second of two identical calls has returned
SecondCallReturned == pc = "returned" /\ prev.calls = 1

ResultOf(c) ==
    [raised |-> c.raised, latest |-> c.latest, rows |-> c.rows,
     start_added |-> c.start_added]

\* the same call run alone on a connection whose row_factory is f
AloneResult(d, candidate, f) ==
    LET found == get_latest_transcript_id_for_today(d)
    IN  IF found # NoId /\ f # RowFactory
        THEN [raised |-> TRUE, latest |-> NoId, rows |-> 0, start_added |-> FALSE]
        ELSE [raised |-> FALSE, latest |-> found,
              rows |-> IF found = NoId THEN 0
                       ELSE Len(get_chunks_by_transcript_id(d, found)),
              start_added |-> f = RowFactory /\ get_transcript_by_id(d, candidate) # NoTime]

\* C21: calls running at once on the connection of get_db: under every
\* interleaving a finished call has the result it has when run alone on the
\* same stores, every cursor a call reads from has the row_factory the
\* connection was given, and the connection's row_factory is never another.
C21_ConcurrentCallsAreSafe ==
    /\ row_factory = get_db_row_factory
    /\ \A t \in Threads :
          /\ callers[t].cursor_factory \in {"unset", get_db_row_factory}
          /\ callers[t].pc = "done" =>
                ResultOf(callers[t]) =
                    AloneResult(db, callers[t].candidate, get_db_row_factory)

\* both calls are done, each has read from the connection while the other
\* was between setting and restoring row_factory, and rows were injected
C21_Witness ==
    /\ \A t \in Threads :
          /\ callers[t].pc = "done"
          /\ callers[t].overlapped
          /\ callers[t].rows > 0
          /\ callers[t].start_added

\* C23 as stated: the filter the vector store is searched with holds every
\* key of the filter_metadata argument.
C23_FilterArgumentIsApplied ==
    pc = "retrieved" /\ retrieval.search_calls = 1 =>
        DOMAIN filter_metadata \subseteq KeysOfFilterSent(retrieval)

\* the context block of the prompt is the rendering of these excerpts, one
\* entry each and nothing else
RendersExcerpts(prompt, chunks) ==
    /\ Len(prompt.context) = Len(chunks)
    /\ \A i \in DOMAIN chunks :
          /\ prompt.context[i].ordinal = i
          /\ prompt.context[i].content = chunks[i].content

\* the excerpts without their timestamp
WithoutStartTimes(chunks) ==
    [i \in DOMAIN chunks |-> [chunks[i] EXCEPT !.transcript_start_time_iso = NoTime]]

\* C22: the assembled prompt is a function of the selected history, the
\* selected excerpts and the question and of nothing else, the timestamp of
\* an excerpt included: it is the prompt of the same excerpts without their
\* timestamps; it has a history block exactly when a message was selected
\* and the no-excerpts marker exactly when no excerpt was.
C22_PromptIsDeterministic ==
    ReachedPlanner =>
        /\ final_prompt =
              AssemblePrompt(plan.selected_history,
                             WithoutStartTimes(plan.selected_chunks), query_text)
        /\ final_prompt.history # <<>> <=> plan.selected_history # <<>>
        /\ IF plan.selected_chunks = <<>>
           THEN final_prompt.context = <<NoExcerptsMarker>>
           ELSE RendersExcerpts(final_prompt, plan.selected_chunks)

\* a prompt with a history block and an excerpt that carries a timestamp
C22_Witness ==
    /\ ReachedPlanner
    /\ plan.selected_history # <<>>
    /\ plan.selected_chunks # <<>>
    /\ plan.selected_chunks[1].transcript_start_time_iso # NoTime

\* C28: the budget loop charges the candidate at position i of the candidate
\* list with the ordinal i (line 278), so the claim is that every selected
\* excerpt is rendered under the position it had in the candidate list, with
\* its transcript id and content, and that the list returned to the caller
\* is the rendered list in the rendered order.
C28_BudgetOrdinalIsRenderedOrdinal ==
    (pc = "returned" /\ ReachedPlanner) =>
        /\ Len(plan.selected_chunks) <= Len(retrieved_chunk_data)
        /\ Len(final_prompt.context) >= Len(plan.selected_chunks)
        /\ \A j \in DOMAIN plan.selected_chunks :
              /\ plan.selected_chunks[j] = retrieved_chunk_data[j]
              /\ final_prompt.context[j].ordinal = j
              /\ final_prompt.context[j].transcript_id = retrieved_chunk_data[j].transcript_id
              /\ final_prompt.context[j].content = retrieved_chunk_data[j].content
        /\ plan.selected_chunks # <<>> =>
              Len(final_prompt.context) = Len(plan.selected_chunks)
        /\ excerpts_used = plan.selected_chunks

\* a call whose budget held two of three or more candidates
C28_Witness ==
    /\ pc = "returned"
    /\ ReachedPlanner
    /\ Len(retrieved_chunk_data) >= 3
    /\ Len(plan.selected_chunks) = 2
    /\ excerpts_used = plan.selected_chunks


\* C24: whenever run_ingestion_pipeline returns, by whichever path (the
\* success path, an exception in fetch, db_load or process, an exit that
\* only the finally block sees), INGESTION_STATUS.status is 'complete' or
\* 'error' and not 'running'; and an ingestion whose task the event loop
\* keeps running leaves the 'running' state.
C24_ReturnsCompleteOrError ==
    /\ [](\A t \in TaskIds :
            ingestion_tasks[t].pc = "returned" =>
                INGESTION_STATUS.status \in {"complete", "error"})
    /\ (INGESTION_STATUS.status = "running") ~> (INGESTION_STATUS.status # "running")

\* a pipeline returned through the finally block alone
C24_Witness ==
    \E t \in TaskIds :
        /\ ingestion_tasks[t].pc = "returned"
        /\ INGESTION_STATUS.status = "error"
        /\ INGESTION_STATUS.last_error = "Pipeline exited unexpectedly."

\* C25: a POST /ingest/start that arrives while the status is 'running'
\* schedules no task and leaves INGESTION_STATUS as it is, and under every
\* interleaving of start requests, polls and the steps of the pipeline at
\* most one task is scheduled or running.
C25_AtMostOneRun ==
    /\ [](Cardinality(ActiveTasks) <= 1)
    /\ [][(/\ ingest_response'.to = "start"
            /\ ingest_response'.seq # ingest_response.seq
            /\ INGESTION_STATUS.status = "running")
              => /\ INGESTION_STATUS' = INGESTION_STATUS
                 /\ ingestion_tasks' = ingestion_tasks]_vars

\* a start request was refused while a pipeline had fetched a transcript
C25_Witness ==
    /\ ingest_response.logged = "already running"
    /\ INGESTION_STATUS.status = "running"
    /\ \E t \in TaskIds :
          /\ ingestion_tasks[t].pc = "fetch"
          /\ ingestion_tasks[t].raw_transcripts # <<>>

\* C26: a fetched transcript whose source_id is already in the transcripts
\* table is counted as skipped and does not abort the run: a pipeline that
\* met one in db_load returns with status 'complete', its skipped count
\* raised, every fetched transcript passed through the db_load loop and
\* the process stage among the completed stages.
C26_DuplicateIsSkipped ==
    \A t \in TaskIds :
        (ingestion_tasks[t].pc = "returned" /\ ingestion_tasks[t].duplicate) =>
            /\ INGESTION_STATUS.status = "complete"
            /\ ingestion_tasks[t].skipped_count > 0
            /\ ingestion_tasks[t].loaded = Len(ingestion_tasks[t].raw_transcripts)
            /\ INGESTION_STATUS.completed_stages = STAGES

\* completed_stages is the first n stages of STAGES, for some n
IsPrefixOfStages(completed) ==
    /\ Len(completed) <= Len(STAGES)
    /\ \A i \in 1 .. Len(completed) : completed[i] = STAGES[i]

\* what the claim C27 says of a status dictionary
StatusConsistent(status) ==
    /\ IsPrefixOfStages(status.completed_stages)
    /\ status.status = "complete" =>
          /\ status.completed_stages = STAGES
          /\ status.current_stage = NoStage
    /\ status.status = "running" =>
          /\ Len(status.completed_stages) < Len(STAGES)
          /\ status.current_stage = STAGES[Len(status.completed_stages) + 1]

\* C27 as stated: in every reachable state of INGESTION_STATUS,
\* completed_stages is a prefix of [fetch, db_load, process] without a
\* repeated stage, 'complete' comes with all three stages and
\* current_stage None, and 'running' comes with current_stage being the
\* first stage not in completed_stages.
C27_StatusConsistentAlways == StatusConsistent(INGESTION_STATUS)

\* C27: the same in every state a request handler or another task can
\* read the dictionary in, which is whenever no task is between two awaits.
C27_StatusConsistentWhenRead == LoopFree => StatusConsistent(INGESTION_STATUS)

\* a poll reads the dictionary of a pipeline that awaits the next transcript
C27_Witness ==
    /\ LoopFree
    /\ ingest_response.to = "status"
    /\ ingest_response.polling
    /\ \E t \in TaskIds :
          /\ ingestion_tasks[t].pc = "fetch"
          /\ ingestion_tasks[t].raw_transcripts # <<>>

\* the positions of the text that chunk holds
PositionsIn(chunk) == {chunk[i] : i \in 1 .. Len(chunk)}

\* C29: chunk_text returns for every text, chunk_size and chunk_overlap,
\* chunk_overlap >= chunk_size included; and when chunk_size >= 1 and
\* chunk_overlap >= 0 every character position of the text is in some
\* returned chunk, each chunk starts after the one before it and no chunk
\* is longer than chunk_size.
C29_ChunkTextTerminatesAndCovers ==
    /\ <>(chunk_at = "returned")
    /\ []((/\ chunk_at = "returned"
            /\ chunk_args.chunk_size >= 1
            /\ chunk_args.chunk_overlap >= 0)
              => /\ \A p \in 1 .. Len(chunk_args.text) :
                      \E i \in 1 .. Len(chunk_list) : p \in PositionsIn(chunk_list[i])
                 /\ \A i \in 1 .. Len(chunk_list) :
                      /\ chunk_list[i] # <<>>
                      /\ Len(chunk_list[i]) <= chunk_args.chunk_size
                 /\ \A i \in 1 .. Len(chunk_list) - 1 :
                      chunk_list[i][1] < chunk_list[i + 1][1])

\* a call with chunk_overlap >= chunk_size returned one chunk per character
C29_Witness ==
    /\ chunk_at = "returned"
    /\ chunk_args.chunk_size >= 1
    /\ chunk_args.chunk_overlap >= chunk_args.chunk_size
    /\ Len(chunk_list) = MaxText
    /\ Len(chunk_list[1]) > 1

\* the call of thread t has completed and it wrote a value for its key
\* (a model name, a target above 0)
Saved(t) ==
    /\ ui_calls[t].pc = "done"
    /\ ui_calls[t].saved
    /\ KeyOf(ui_calls[t]) \in DOMAIN ui_calls[t].overrides

\* C30: when two set_ui_* calls that set different keys have both
\* completed, under whichever interleaving, data/ui_settings.json holds
\* the value each of them wrote for its key; and get_settings() then
\* returns the context_target_tokens v > 0 that
\* set_ui_context_target_tokens(v) was called with.
C30_NoOverrideLost ==
    (/\ \A t \in Threads : Saved(t)
     /\ \A t, u \in Threads : t # u => KeyOf(ui_calls[t]) # KeyOf(ui_calls[u]))
        => /\ ui_settings_file.readable
           /\ \A t \in Threads :
                /\ KeyOf(ui_calls[t]) \in DOMAIN ui_settings_file.overrides
                /\ ui_settings_file.overrides[KeyOf(ui_calls[t])]
                      = ui_calls[t].overrides[KeyOf(ui_calls[t])]
                /\ ui_calls[t].fn = "set_ui_context_target_tokens" =>
                      get_settings_context_target_tokens(ui_settings_file)
                          = ui_calls[t].value
====
